---------------------------- MODULE Spec2Model ----------------------------
(***************************************************************************)
(* Radar_CMC_AI: the length-budgeting and message-decomposition code of    *)
(* utils.py and formatting.py (with the copies of get_twitter_length in    *)
(* parser.py and openai_cmc_integration.py).                               *)
(*                                                                         *)
(* A Python str is a sequence of code points (natural numbers); the value  *)
(* None is the one-element sequence <<-1>>, which is no string.  Literals  *)
(* of the source are written as tuples of code points, with the text in a  *)
(* comment.                                                                *)
(***************************************************************************)
EXTENDS Integers, Sequences, FiniteSets, TLC

VARIABLES calc, trunc, fmtr, pub, lock

vars == <<calc, trunc, fmtr, pub, lock>>

None == <<-1>>

\* Python truthiness of a str-or-None value: `not x`
Falsy(x) == x = None \/ x = <<>>

Min(a, b) == IF a <= b THEN a ELSE b
Max(a, b) == IF a >= b THEN a ELSE b

(***************************************************************************)
(* str primitives                                                          *)
(***************************************************************************)

\* str.isspace() for one code point; also the class \s of re on str patterns
IsSpace(c) ==
    \/ c \in 9..13 \/ c \in 28..32 \/ c = 133 \/ c = 160 \/ c = 5760
    \/ c \in 8192..8202 \/ c \in {8232, 8233, 8239, 8287, 12288}

\* the class \d of re, on the ASCII digits (the only digits of the inputs)
IsDigit(c) == c \in 48..57

\* the class [A-Z]
IsUpperAZ(c) == c \in 65..90

\* the class [.!?]
IsTerminator(c) == c \in {46, 33, 63}

\* s[:k], for any integer k (a negative k counts from the end)
SliceTo(s, k) ==
    IF k >= 0 THEN SubSeq(s, 1, Min(k, Len(s)))
              ELSE SubSeq(s, 1, Max(Len(s) + k, 0))

\* s[k:], for k >= 0
SliceFrom(s, k) == SubSeq(s, Min(k, Len(s)) + 1, Len(s))

\* the indices lo..hi, in order
Indices(lo, hi) == [k \in 1..(hi - lo + 1) |-> k + lo - 1]

\* the indices of s, in order, whose code point is whitespace / is not
SpaceIdx(s) == SelectSeq(Indices(1, Len(s)), LAMBDA i : IsSpace(s[i]))
NonSpaceIdx(s) == SelectSeq(Indices(1, Len(s)), LAMBDA i : ~IsSpace(s[i]))

\* the last index of the whitespace run of s that starts at index i
\* (i - 1 when s has no whitespace at i)
WsRunEnd(s, i) ==
    LET ns == SelectSeq(Indices(i, Len(s)), LAMBDA j : ~IsSpace(s[j]))
    IN  IF ns = << >> THEN Max(Len(s), i - 1) ELSE ns[1] - 1

\* str.rstrip(), str.strip()
RStrip(s) ==
    LET ns == NonSpaceIdx(s)
    IN  IF ns = << >> THEN << >> ELSE SubSeq(s, 1, ns[Len(ns)])
Strip(s) ==
    LET ns == NonSpaceIdx(s)
    IN  IF ns = << >> THEN << >> ELSE SubSeq(s, ns[1], ns[Len(ns)])

\* str.startswith(p), str.endswith(p)
StartsWith(s, p) == Len(p) <= Len(s) /\ SubSeq(s, 1, Len(p)) = p
EndsWith(s, p) == Len(p) <= Len(s) /\ SubSeq(s, Len(s) - Len(p) + 1, Len(s)) = p

\* `p in s` for strings
Contains(s, p) ==
    \E i \in 1..(Len(s) - Len(p) + 1) : SubSeq(s, i, i + Len(p) - 1) = p

\* str.lower(), on the letters A-Z (the other code points of the inputs
\* have no lower-case form)
Lower(s) == [i \in 1..Len(s) |-> IF IsUpperAZ(s[i]) THEN s[i] + 32 ELSE s[i]]

\* str.split(sep) for a one-code-point separator: the pieces between the
\* separators, empty pieces kept
Split(s, sep) ==
    LET at == SelectSeq(Indices(1, Len(s)), LAMBDA i : s[i] = sep)
    IN  [k \in 1..(Len(at) + 1) |->
            SubSeq(s, IF k = 1 THEN 1 ELSE at[k - 1] + 1,
                      IF k > Len(at) THEN Len(s) ELSE at[k] - 1)]

\* str.split() without argument: the maximal runs of non-whitespace
SplitWs(s) ==
    LET first == SelectSeq(Indices(1, Len(s)),
                           LAMBDA i : ~IsSpace(s[i]) /\ (i = 1 \/ IsSpace(s[i - 1])))
        last == SelectSeq(Indices(1, Len(s)),
                          LAMBDA i : ~IsSpace(s[i]) /\ (i = Len(s) \/ IsSpace(s[i + 1])))
    IN  [k \in 1..Len(first) |-> SubSeq(s, first[k], last[k])]

\* sep.join(parts[lo..hi])
RECURSIVE JoinRange(_, _, _, _)
JoinRange(parts, sep, lo, hi) ==
    IF lo > hi THEN << >>
    ELSE IF lo = hi THEN parts[lo]
    ELSE LET mid == (lo + hi) \div 2
         IN  JoinRange(parts, sep, lo, mid) \o sep \o JoinRange(parts, sep, mid + 1, hi)

\* sep.join(parts)
Join(parts, sep) == JoinRange(parts, sep, 1, Len(parts))

\* u * n: a string of n copies of the unit u
Rep(u, n) == [i \in 1..(n * Len(u)) |-> u[((i - 1) % Len(u)) + 1]]

(***************************************************************************)
(* Weighted length: the four copies of get_twitter_length                  *)
(***************************************************************************)

\* utils.EMOJI_PATTERN: the ranges of the character class, in source order
EMOJI_PATTERN ==
    << <<128512, 128591>>, <<127744, 128511>>, <<128640, 128767>>,
       <<128768, 128895>>, <<128896, 129023>>, <<129024, 129279>>,
       <<129280, 129535>>, <<129536, 129647>>, <<129648, 129791>>,
       <<127456, 127487>>, <<9986, 10160>>, <<9410, 127569>>,
       <<9728, 9983>>, <<9984, 10175>>, <<65024, 65039>>,
       <<126976, 127023>>, <<127136, 127231>> >>

\* the character class of the emoji_pattern compiled in formatting.py,
\* parser.py and openai_cmc_integration.py (the same six ranges in each)
emoji_pattern ==
    << <<128512, 128591>>, <<127744, 128511>>, <<128640, 128767>>,
       <<127456, 127487>>, <<9986, 10160>>, <<9410, 127569>> >>

InClass(c, ranges) == \E k \in 1..Len(ranges) : ranges[k][1] <= c /\ c <= ranges[k][2]

\* pattern.findall(text) for a class without quantifier: one match per
\* code point of the class
FindallEach(text, ranges) == SelectSeq(text, LAMBDA c : InClass(c, ranges))

\* pattern.findall(text) for "[...]+": one match per maximal run of code
\* points of the class; the matches are given by their start positions
FindallRuns(text, ranges) ==
    SelectSeq(Indices(1, Len(text)),
              LAMBDA i : InClass(text[i], ranges) /\ (i = 1 \/ ~InClass(text[i - 1], ranges)))

\* a weighted length that joins code points linked by ZERO WIDTH JOINER into
\* one emoji of weight 2 (what the platform does, and the code does not)
utils_get_twitter_length_zwj(text) ==
    IF Falsy(text) THEN 0
    ELSE LET joined == {i \in 2..Len(text) : text[i - 1] = 8205 /\ InClass(text[i], EMOJI_PATTERN)}
         IN  Len(text) + Len(FindallEach(text, EMOJI_PATTERN)) - 3 * Cardinality(joined)

\* the count of utils.EMOJI_PATTERN with a "+" quantifier left on it: one
\* per run of wide code points
utils_get_twitter_length_runs(text) ==
    IF Falsy(text) THEN 0
    ELSE Len(text) + Len(FindallRuns(text, EMOJI_PATTERN))

\* utils.get_twitter_length
utils_get_twitter_length(text) ==
    IF Falsy(text) THEN 0
    ELSE LET emoji_matches == FindallEach(text, EMOJI_PATTERN)
             emoji_count == Len(emoji_matches)
         IN  Len(text) + emoji_count

\* formatting.get_twitter_length
get_twitter_length(text) ==
    IF Falsy(text) THEN 0
    ELSE LET emoji_count == Len(FindallRuns(text, emoji_pattern))
         IN  Len(text) + emoji_count

\* openai_cmc_integration.get_twitter_length
openai_get_twitter_length(text) ==
    IF Falsy(text) THEN 0
    ELSE LET emoji_count == Len(FindallRuns(text, emoji_pattern))
         IN  Len(text) + emoji_count

\* parser.get_twitter_length
parser_get_twitter_length(text) ==
    IF Falsy(text) THEN 0
    ELSE LET emoji_count == Len(FindallRuns(text, emoji_pattern))
         IN  Len(text) + emoji_count


\* the four calculators applied to one text
Measure(text) ==
    [ utils      |-> utils_get_twitter_length(text),
      formatting |-> get_twitter_length(text),
      openai     |-> openai_get_twitter_length(text),
      parser     |-> parser_get_twitter_length(text) ]

\* the components that a specification leaves out rest in these states
CalcIdle == [text |-> None, appended |-> 0, len |-> Measure(None), prev |-> Measure(None)]
TruncIdle == [pc |-> "idle"]
FmtrIdle == [pc |-> "idle"]
PubIdle == [pc |-> "idle"]
LockIdle == [pc |-> "idle"]

(***************************************************************************)
(* utils.safe_truncate                                                     *)
(***************************************************************************)

\* the early return of safe_truncate taken only when the suffix would fit
\* as well
AlreadyFitsWithSuffixRoom(text, max_length) ==
    utils_get_twitter_length(text) <= max_length - 3

\* `if get_twitter_length(text) <= max_length: return text`
AlreadyFits(text, max_length) == utils_get_twitter_length(text) <= max_length

\* a word that does not fit is cut wherever it stands
CutsAnyWord(result) == TRUE

\* `if not result`: only the first word is cut by characters
CutsFirstWordOnly(result) == result = << >>

\* the inner loop of safe_truncate: the characters of the first word that
\* fit, as a list of one-character strings
RECURSIVE TakeChars(_, _, _, _)
TakeChars(chars, k, current_length, target_length) ==
    IF k > Len(chars) THEN << >>
    ELSE LET char == << chars[k] >>
             char_len == utils_get_twitter_length(char)
         IN  IF current_length + char_len <= target_length
             THEN << char >> \o TakeChars(chars, k + 1, current_length + char_len, target_length)
             ELSE << >>

\* the loop over the words of safe_truncate; i is the 1-based index of the
\* word, result the list of pieces appended so far
RECURSIVE TakeWords(_, _, _, _, _)
TakeWords(words, i, result, current_length, target_length) ==
    IF i > Len(words) THEN result
    ELSE LET word == words[i]
             word_length == utils_get_twitter_length(word)
             space_length == IF i > 1 THEN 1 ELSE 0
         IN  IF current_length + space_length + word_length <= target_length
             THEN TakeWords(words, i + 1,
                            result \o (IF i > 1 THEN << <<32>> >> ELSE << >>) \o << word >>,
                            current_length + space_length + word_length, target_length)
             ELSE IF CutsFirstWordOnly(result)
                     THEN result \o TakeChars(word, 1, current_length, target_length)
                     ELSE result

\* utils.safe_truncate(text, max_length, suffix)
safe_truncate(text, max_length, suffix) ==
    IF Falsy(text) THEN << >>
    ELSE IF AlreadyFits(text, max_length) THEN text
    ELSE LET suffix_length == utils_get_twitter_length(suffix)
             target_length == max_length - suffix_length
         IN  IF target_length <= 0
             THEN (IF max_length > 0 THEN SliceTo(text, max_length) ELSE << >>)
             ELSE LET words == Split(text, 32)
                      result == TakeWords(words, 1, << >>, 0, target_length)
                      final_text == RStrip(Join(result, << >>))
                  IN  IF final_text # << >>
                         /\ utils_get_twitter_length(final_text \o suffix) <= max_length
                      THEN final_text \o suffix
                      ELSE final_text

(***************************************************************************)
(* The truncator under test: one text is truncated to a budget, and the    *)
(* result is truncated to the same budget again.                           *)
(***************************************************************************)

\* the longest text, in code points, and the largest budget
MaxTextLen == 5
MaxBudget == 6

\* a letter, the space, a line break and a wide code point
TruncAlphabet == {97, 32, 10, 128640}

\* the suffixes: "..." (the default), "" and "🚀"
TruncSuffixes == { <<46, 46, 46>>, << >>, <<128640>> }

RECURSIVE StringsUpTo(_, _)
StringsUpTo(alphabet, n) ==
    IF n = 0 THEN { << >> }
    ELSE LET shorter == StringsUpTo(alphabet, n - 1)
         IN  shorter \cup {Append(t, c) : t \in {u \in shorter : Len(u) = n - 1}, c \in alphabet}

TruncInit ==
    /\ \E text \in StringsUpTo(TruncAlphabet, MaxTextLen),
          max_length \in 0..MaxBudget,
          suffix \in TruncSuffixes :
          trunc = [pc |-> "start", text |-> text, max_length |-> max_length,
                   suffix |-> suffix, out |-> << >>, out2 |-> << >>]
    /\ calc = CalcIdle
    /\ fmtr = FmtrIdle
    /\ pub = PubIdle
    /\ lock = LockIdle

SafeTruncate ==
    /\ trunc.pc = "start"
    /\ trunc' = [trunc EXCEPT !.pc = "once",
                              !.out = safe_truncate(trunc.text, trunc.max_length, trunc.suffix)]
    /\ UNCHANGED <<calc, fmtr, pub, lock>>

SafeTruncateAgain ==
    /\ trunc.pc = "once"
    /\ trunc' = [trunc EXCEPT !.pc = "twice",
                              !.out2 = safe_truncate(trunc.out, trunc.max_length, trunc.suffix)]
    /\ UNCHANGED <<calc, fmtr, pub, lock>>

TruncNext == SafeTruncate \/ SafeTruncateAgain

SpecTrunc == TruncInit /\ [][TruncNext]_vars

Truncated == trunc.pc \in {"once", "twice"}

\* the text was shortened
Shortened == Truncated /\ trunc.out # trunc.text

\* the budget leaves room for more than the suffix
RoomBeyondSuffix == trunc.max_length > utils_get_twitter_length(trunc.suffix)

\* C4: the result of safe_truncate(text, max_length, suffix) has weighted
\* length <= max_length, for every text, budget and suffix, the degenerate
\* case of a budget that the suffix fills included.
C4_TruncateWithinBudget ==
    Truncated => utils_get_twitter_length(trunc.out) <= trunc.max_length

\* C5: safe_truncate is idempotent for a budget larger than the suffix:
\* truncating the result again to the same budget returns it unchanged.
C5_TruncateIdempotent ==
    (trunc.pc = "twice" /\ RoomBeyondSuffix) => trunc.out2 = trunc.out

\* a shortened text that ends with the suffix was truncated twice
C5_Witness ==
    /\ trunc.pc = "twice" /\ RoomBeyondSuffix /\ Shortened
    /\ trunc.suffix = <<46, 46, 46>> /\ EndsWith(trunc.out, trunc.suffix)
    /\ trunc.out2 = trunc.out

\* the part of the result before the suffix
Kept ==
    IF trunc.out # << >> /\ EndsWith(trunc.out, trunc.suffix)
    THEN SubSeq(trunc.out, 1, Len(trunc.out) - Len(trunc.suffix))
    ELSE trunc.out

IsPrefix(p, s) == Len(p) <= Len(s) /\ SubSeq(s, 1, Len(p)) = p

\* the first space-separated word of the text
FirstWord == Split(trunc.text, 32)[1]

FirstWordFits ==
    utils_get_twitter_length(FirstWord)
        <= trunc.max_length - utils_get_twitter_length(trunc.suffix)

\* the kept part is cut from the front of the source and stops between
\* words (at the end of the source, before whitespace, or after whitespace),
\* or else it is a character prefix of a first word that does not fit
EndsOnWordBoundary ==
    /\ IsPrefix(Kept, trunc.text)
    /\ \/ Len(Kept) = Len(trunc.text)
       \/ IsSpace(trunc.text[Len(Kept) + 1])
       \/ Kept = << >>
       \/ IsSpace(Kept[Len(Kept)])
       \/ ~FirstWordFits /\ IsPrefix(Kept, FirstWord)

MAX_TEXT_LENGTH == 5000
EMOJI_DETECTION_TEXT_LIMIT == 2000
MIN_TWITTER_SPACE == 50
MAX_TWITTER_LENGTH == 280
MAX_THREAD_TWEETS == 5

\* "\n\n", " " and "..."
NLNL == <<10, 10>>
SP == <<32>>
DOTS == <<46, 46, 46>>

\* safe_str without the strip: whitespace around the value is kept
safe_str_nostrip(value, default, max_length) ==
    IF value = None THEN default
    ELSE IF max_length # 0 /\ Len(value) > max_length
         THEN SliceTo(value, max_length)
         ELSE value

\* formatting.safe_str(value, default, max_length), for a str or None
safe_str(value, default, max_length) ==
    IF value = None THEN default
    ELSE LET result == Strip(value)
         IN  IF max_length # 0 /\ Len(result) > max_length
             THEN SliceTo(result, max_length)
             ELSE result

\* TITLE_EMOJI_MAP, as the list of its (key, value) pairs
TITLE_EMOJI_MAP ==
    << \* "Crypto Insights": "💡"
       << <<67, 114, 121, 112, 116, 111, 32, 73, 110, 115, 105, 103, 104, 116, 115>>,
          <<128161>> >>,
       \* "Market Analysis": "📊"
       << <<77, 97, 114, 107, 101, 116, 32, 65, 110, 97, 108, 121, 115, 105, 115>>,
          <<128202>> >>,
       \* "Daily Market Sentiment": "🎭"
       << <<68, 97, 105, 108, 121, 32, 77, 97, 114, 107, 101, 116, 32, 83, 101, 110,
            116, 105, 109, 101, 110, 116>>,
          <<127917>> >>,
       \* "Upcoming Crypto Events": "📅"
       << <<85, 112, 99, 111, 109, 105, 110, 103, 32, 67, 114, 121, 112, 116, 111, 32,
            69, 118, 101, 110, 116, 115>>,
          <<128197>> >>,
       \* "Bullish Crypto Watchlist": "🚀"
       << <<66, 117, 108, 108, 105, 115, 104, 32, 67, 114, 121, 112, 116, 111, 32, 87,
            97, 116, 99, 104, 108, 105, 115, 116>>,
          <<128640>> >>,
       \* "Trending Crypto Narratives": "🔥"
       << <<84, 114, 101, 110, 100, 105, 110, 103, 32, 67, 114, 121, 112, 116, 111, 32,
            78, 97, 114, 114, 97, 116, 105, 118, 101, 115>>,
          <<128293>> >>,
       \* "Altcoin Performance": "⚡"
       << <<65, 108, 116, 99, 111, 105, 110, 32, 80, 101, 114, 102, 111, 114, 109, 97,
            110, 99, 101>>,
          <<9889>> >> >>

\* TITLE_EMOJI_MAP.get(title, "📰")
TitleEmoji(title) ==
    IF \E k \in 1..Len(TITLE_EMOJI_MAP) : TITLE_EMOJI_MAP[k][1] = title
    THEN TITLE_EMOJI_MAP[CHOOSE k \in 1..Len(TITLE_EMOJI_MAP) : TITLE_EMOJI_MAP[k][1] = title][2]
    ELSE <<128240>>

\* CONTEXT_PATTERNS, in source order: the words of the pattern, the emoji
\* and the priority
CONTEXT_PATTERNS ==
    << \* ("bullish|rally|surge|pump|moon", "🚀", 1)
       [ words |-> << <<98, 117, 108, 108, 105, 115, 104>>, <<114, 97, 108, 108, 121>>,
                      <<115, 117, 114, 103, 101>>, <<112, 117, 109, 112>>,
                      <<109, 111, 111, 110>> >>,
         emoji |-> <<128640>>, priority |-> 1 ],
       \* ("bearish|dump|crash|decline|drop", "🐻", 1)
       [ words |-> << <<98, 101, 97, 114, 105, 115, 104>>, <<100, 117, 109, 112>>,
                      <<99, 114, 97, 115, 104>>, <<100, 101, 99, 108, 105, 110, 101>>,
                      <<100, 114, 111, 112>> >>,
         emoji |-> <<128059>>, priority |-> 1 ],
       \* ("liquidation|liquidated|rekt", "🔥", 2)
       [ words |-> << <<108, 105, 113, 117, 105, 100, 97, 116, 105, 111, 110>>,
                      <<108, 105, 113, 117, 105, 100, 97, 116, 101, 100>>,
                      <<114, 101, 107, 116>> >>,
         emoji |-> <<128293>>, priority |-> 2 ],
       \* ("bitcoin|btc", "₿", 3)
       [ words |-> << <<98, 105, 116, 99, 111, 105, 110>>, <<98, 116, 99>> >>,
         emoji |-> <<8383>>, priority |-> 3 ],
       \* ("ethereum|eth", "💎", 3)
       [ words |-> << <<101, 116, 104, 101, 114, 101, 117, 109>>, <<101, 116, 104>> >>,
         emoji |-> <<128142>>, priority |-> 3 ],
       \* ("solana|sol", "🦎", 3)
       [ words |-> << <<115, 111, 108, 97, 110, 97>>, <<115, 111, 108>> >>,
         emoji |-> <<129422>>, priority |-> 3 ],
       \* ("whale|whales", "🐋", 2)
       [ words |-> << <<119, 104, 97, 108, 101>>, <<119, 104, 97, 108, 101, 115>> >>,
         emoji |-> <<128011>>, priority |-> 2 ],
       \* ("ai|artificial intelligence", "🤖", 2)
       [ words |-> << <<97, 105>>,
                      <<97, 114, 116, 105, 102, 105, 99, 105, 97, 108, 32, 105, 110, 116,
                        101, 108, 108, 105, 103, 101, 110, 99, 101>> >>,
         emoji |-> <<129302>>, priority |-> 2 ],
       \* ("defi|decentralized finance", "✨", 3)
       [ words |-> << <<100, 101, 102, 105>>,
                      <<100, 101, 99, 101, 110, 116, 114, 97, 108, 105, 122, 101, 100, 32,
                        102, 105, 110, 97, 110, 99, 101>> >>,
         emoji |-> <<10024>>, priority |-> 3 ] >>

\* sorted(CONTEXT_PATTERNS, key=lambda x: x[2]); the sort is stable
SortedContextPatterns ==
    SelectSeq(CONTEXT_PATTERNS, LAMBDA p : p.priority = 1)
        \o SelectSeq(CONTEXT_PATTERNS, LAMBDA p : p.priority = 2)
        \o SelectSeq(CONTEXT_PATTERNS, LAMBDA p : p.priority = 3)

\* the loop of get_context_emojis over the sorted patterns
RECURSIVE ContextScan(_, _, _, _, _)
ContextScan(patterns, k, found, text_lower, max_count) ==
    IF k > Len(patterns) THEN found
    ELSE LET pat == patterns[k]
         IN  IF \E j \in 1..Len(found) : found[j] = pat.emoji
             THEN ContextScan(patterns, k + 1, found, text_lower, max_count)
             ELSE IF \E w \in 1..Len(pat.words) : Contains(text_lower, pat.words[w])
                  THEN LET found2 == Append(found, pat.emoji)
                       IN  IF Len(found2) >= max_count THEN found2
                           ELSE ContextScan(patterns, k + 1, found2, text_lower, max_count)
                  ELSE ContextScan(patterns, k + 1, found, text_lower, max_count)

\* formatting.get_context_emojis(text, max_count): a list of emoji
get_context_emojis(text, max_count) ==
    IF Falsy(text) THEN << >>
    ELSE ContextScan(SortedContextPatterns, 1, << >>,
                     Lower(SliceTo(text, EMOJI_DETECTION_TEXT_LIMIT)), max_count)

\* formatting.detect_price_change_emoji(line): "🟢", "🔴" or "•"
detect_price_change_emoji(line) ==
    IF Contains(line, <<43>>) \/ Contains(line, <<117, 112>>) \/ Contains(line, <<8593>>)
    THEN <<128994>>
    ELSE IF Contains(line, <<45>>) \/ Contains(line, <<100, 111, 119, 110>>)
            \/ Contains(line, <<8595>>)
         THEN <<128308>>
         ELSE <<8226>>

\* the number of leading ASCII digits of s
LeadingDigits(s) ==
    LET other == SelectSeq(Indices(1, Len(s)), LAMBDA i : ~IsDigit(s[i]))
    IN  IF other = << >> THEN Len(s) ELSE other[1] - 1

\* the number of leading letters A-Z of s
LeadingUpper(s) ==
    LET other == SelectSeq(Indices(1, Len(s)), LAMBDA i : ~IsUpperAZ(s[i]))
    IN  IF other = << >> THEN Len(s) ELSE other[1] - 1

\* LIST_ITEM_PATTERN = ^[\-•\*]\s+|^\d+\.\s+ : the length of its match at
\* the start of line, 0 when it does not match
ListItemMatchLen(line) ==
    IF Len(line) >= 2 /\ line[1] \in {45, 8226, 42} /\ IsSpace(line[2])
    THEN WsRunEnd(line, 2)
    ELSE LET d == LeadingDigits(line)
         IN  IF d >= 1 /\ Len(line) >= d + 2 /\ line[d + 1] = 46 /\ IsSpace(line[d + 2])
             THEN WsRunEnd(line, d + 2)
             ELSE 0

\* LIST_ITEM_PATTERN.match(line)
ListItemMatch(line) == ListItemMatchLen(line) > 0

\* LIST_ITEM_PATTERN.sub('', line)
ListItemSub(line) == SliceFrom(line, ListItemMatchLen(line))

\* CRYPTO_PRICE_PATTERN = ^[A-Z]{2,10}\s*\([+-]?\d , matched at the start
CryptoPriceMatch(line) ==
    LET r == LeadingUpper(line)
        j == WsRunEnd(line, r + 1) + 1
    IN  /\ r >= 2 /\ r <= 10
        /\ j <= Len(line) /\ line[j] = 40
        /\ \/ j + 1 <= Len(line) /\ IsDigit(line[j + 1])
           \/ j + 2 <= Len(line) /\ line[j + 1] \in {43, 45} /\ IsDigit(line[j + 2])

(***************************************************************************)
(* formatting.py: the content extractors                                   *)
(***************************************************************************)

\* "Alpha Take" and "Context:"
ALPHA_TAKE == <<65, 108, 112, 104, 97, 32, 84, 97, 107, 101>>
CONTEXT_COLON == <<67, 111, 110, 116, 101, 120, 116, 58>>

\* the body of the loop of extract_bullet_points: the point that a line
\* yields, None when it yields none
BulletOf(raw_line) ==
    LET line == Strip(raw_line)
    IN  IF line = << >> THEN None
        ELSE IF StartsWith(line, ALPHA_TAKE) \/ StartsWith(line, CONTEXT_COLON) THEN None
        ELSE IF ListItemMatch(line) \/ CryptoPriceMatch(line)
             THEN LET clean == Strip(ListItemSub(line))
                  IN  IF clean # << >> /\ Len(clean) > 10 THEN clean ELSE None
             ELSE None

\* formatting.extract_bullet_points(text)
extract_bullet_points(text) ==
    LET lines == Split(text, 10)
    IN  SelectSeq([k \in 1..Len(lines) |-> BulletOf(lines[k])], LAMBDA x : x # None)

\* the loop of extract_intro_sentence: the first line kept in clean_text,
\* None when the loop ends without one
RECURSIVE IntroLine(_, _, _)
IntroLine(lines, k, skip_alpha) ==
    IF k > Len(lines) THEN None
    ELSE LET line == lines[k]
         IN  IF Contains(line, ALPHA_TAKE) THEN IntroLine(lines, k + 1, TRUE)
             ELSE IF skip_alpha /\ (StartsWith(line, CONTEXT_COLON) \/ Strip(line) = << >>)
                  THEN IntroLine(lines, k + 1, skip_alpha)
             ELSE IF Strip(line) # << >> THEN line
             ELSE IntroLine(lines, k + 1, skip_alpha)

\* the index of the first code point of [.!?] in s, 0 when there is none
FirstTerminator(s) ==
    LET at == SelectSeq(Indices(1, Len(s)), LAMBDA i : IsTerminator(s[i]))
    IN  IF at = << >> THEN 0 ELSE at[1]

\* formatting.extract_intro_sentence(text)
extract_intro_sentence(text) ==
    LET first_line == IntroLine(Split(text, 10), 1, FALSE)
    IN  IF first_line = None THEN SliceTo(text, 100)
        ELSE LET t == FirstTerminator(first_line)
                 \* re.match(r'^([^.!?]+[.!?])', first_line)
                 matched == t >= 2
                 intro == Strip(SubSeq(first_line, 1, t))
             IN  IF matched /\ get_twitter_length(intro) <= 200 THEN intro
                 ELSE IF Len(first_line) > 200 THEN SliceTo(first_line, 197) \o DOTS
                 ELSE first_line

\* re.split(r'(?<=[.!?])\s+', text): the text is cut at each run of
\* whitespace that directly follows a code point of [.!?]
SentenceSplit(text) ==
    LET at == SelectSeq(Indices(2, Len(text)),
                        LAMBDA i : IsSpace(text[i]) /\ IsTerminator(text[i - 1]))
    IN  [k \in 1..(Len(at) + 1) |->
            SubSeq(text, IF k = 1 THEN 1 ELSE WsRunEnd(text, at[k - 1]) + 1,
                         IF k > Len(at) THEN Len(text) ELSE at[k] - 1)]

\* the sentences of the fallback when none is left out for being the sixth
\* or later
FallbackSentencesUncapped(text) ==
    LET sentences == SentenceSplit(text)
        stripped == [k \in 1..Len(sentences) |-> Strip(sentences[k])]
    IN  SelectSeq(stripped, LAMBDA x : Len(x) > 20)

\* [s.strip() for s in sentences if len(s.strip()) > 20][:5]
FallbackSentences(text) ==
    LET sentences == SentenceSplit(text)
        stripped == [k \in 1..Len(sentences) |-> Strip(sentences[k])]
        long == SelectSeq(stripped, LAMBDA x : Len(x) > 20)
    IN  SubSeq(long, 1, Min(5, Len(long)))

(***************************************************************************)
(* formatting.format_twitter_thread                                        *)
(***************************************************************************)

\* "\n\n🧵👇", "◼ Alpha Take\n\n", "\n\nContext: " and str(None)
THREAD_MARK == <<10, 10, 129525, 128071>>
ALPHA_HEADER == <<9724, 32, 65, 108, 112, 104, 97, 32, 84, 97, 107, 101, 10, 10>>
CONTEXT_LABEL == <<10, 10, 67, 111, 110, 116, 101, 120, 116, 58, 32>>
NONE_STR == <<78, 111, 110, 101>>

\* the value a composer returns: a rejection (None) or a list of tweets
Rejected == [rejected |-> TRUE, tweets |-> << >>]
Thread(tweets) == [rejected |-> FALSE, tweets |-> tweets]

\* an f-string field: str(value)
FStr(value) == IF value = None THEN NONE_STR ELSE value

\* the content loop run while the thread has fewer tweets than the cap
ThreadHasRoomUpToCap(tweets) == Len(tweets) < MAX_THREAD_TWEETS

\* `len(tweets) < (MAX_THREAD_TWEETS - 1)`: one tweet is kept for the
\* closing message
ThreadHasRoom(tweets) == Len(tweets) < MAX_THREAD_TWEETS - 1

\* tweet 1: the header line, the intro and the thread mark
IntroTweet(emoji, title, context_str, intro) ==
    emoji \o SP \o title
        \o (IF context_str # << >> THEN SP \o context_str ELSE << >>)
        \o NLNL \o intro \o THREAD_MARK

\* `if len(formatted) > 100: formatted = formatted[:97] + "..."`
ShortenPoint(formatted) ==
    IF Len(formatted) > 100 THEN SliceTo(formatted, 97) \o DOTS ELSE formatted

\* one point formatted as a line of a content tweet
FormatPoint(point) ==
    ShortenPoint(IF CryptoPriceMatch(point)
                 THEN detect_price_change_emoji(point) \o SP \o point
                 ELSE <<8226, 32>> \o point)

\* the inner loop of format_twitter_thread: the batch filled from points[i]
\* on (i is 1-based), and the index of the first point left.  AddToBatch is
\* the body of the loop once the point is formatted
RECURSIVE FillBatch(_, _, _)
\* the body of the loop when a point that does not fit a batch already
\* begun is passed over instead of being kept for the next batch
AddToBatchSkipping(points, i, batch, formatted) ==
    IF get_twitter_length(Join(Append(batch, formatted), NLNL)) > MAX_TWITTER_LENGTH
    THEN IF Len(batch) = 0
         THEN [batch |-> << SliceTo(formatted, MAX_TWITTER_LENGTH - 10) \o DOTS >>,
               i |-> i + 1]
         ELSE [batch |-> batch, i |-> i + 1]
    ELSE FillBatch(points, i + 1, Append(batch, formatted))

AddToBatch(points, i, batch, formatted) ==
    IF get_twitter_length(Join(Append(batch, formatted), NLNL)) > MAX_TWITTER_LENGTH
    THEN IF Len(batch) = 0
         THEN [batch |-> << SliceTo(formatted, MAX_TWITTER_LENGTH - 10) \o DOTS >>,
               i |-> i + 1]
         ELSE [batch |-> batch, i |-> i]
    ELSE FillBatch(points, i + 1, Append(batch, formatted))

\* the inner loop when a batch takes up to 4 points
FillBatchOfFour(points, i, batch) ==
    IF ~(i <= Len(points) /\ Len(batch) < 4) THEN [batch |-> batch, i |-> i]
    ELSE AddToBatch(points, i, batch, FormatPoint(points[i]))

FillBatch(points, i, batch) ==
    IF ~(i <= Len(points) /\ Len(batch) < 3) THEN [batch |-> batch, i |-> i]
    ELSE AddToBatch(points, i, batch, FormatPoint(points[i]))

\* the outer loop of format_twitter_thread: the content tweets appended.
\* AppendBatch is the end of its body: `if batch: tweets.append(...)`, then
\* the next turn from the first point left
RECURSIVE ContentTweets(_, _, _)
AppendBatch(points, b, tweets) ==
    ContentTweets(points, b.i,
                  IF b.batch # << >> THEN Append(tweets, Join(b.batch, NLNL)) ELSE tweets)

ContentTweets(points, i, tweets) ==
    IF ~(i <= Len(points) /\ ThreadHasRoom(tweets)) THEN tweets
    ELSE AppendBatch(points, FillBatch(points, i, << >>), tweets)

\* the closing tweet with the alpha take
AlphaTweet(alpha, context_tag, hashtags) ==
    ALPHA_HEADER \o alpha
        \o (IF ~Falsy(context_tag) THEN CONTEXT_LABEL \o context_tag ELSE << >>)
        \o NLNL \o hashtags

\* max_alpha: what the fixed parts of the closing tweet leave, less 10
MaxAlpha(context_tag, hashtags) ==
    MAX_TWITTER_LENGTH
        - get_twitter_length(ALPHA_HEADER \o CONTEXT_LABEL \o FStr(context_tag)
                             \o NLNL \o hashtags)
        - 10

\* the length check of the closing tweet: its alpha take is cut when the
\* tweet is too long
CutAlpha(final_tweet, alpha_take, context_tag, hashtags) ==
    IF get_twitter_length(final_tweet) > MAX_TWITTER_LENGTH
    THEN AlphaTweet(SliceTo(alpha_take, MaxAlpha(context_tag, hashtags) - 3) \o DOTS,
                    context_tag, hashtags)
    ELSE final_tweet

\* the closing tweet
FinalTweet(alpha_take, context_tag, hashtags) ==
    CutAlpha(AlphaTweet(alpha_take, context_tag, hashtags), alpha_take, context_tag, hashtags)

\* max_intro: what the fixed parts of tweet 1 leave, less 5
MaxIntro(emoji, title, context_str) ==
    MAX_TWITTER_LENGTH
        - get_twitter_length(emoji \o SP \o title \o SP \o context_str \o NLNL \o THREAD_MARK)
        - 5

\* the length check of tweet 1: when too long, its intro is replaced by the
\* start of the text
CutIntro(tweet1, emoji, title, context_str, text) ==
    IF get_twitter_length(tweet1) > MAX_TWITTER_LENGTH
    THEN IntroTweet(emoji, title, context_str,
                    SliceTo(text, MaxIntro(emoji, title, context_str) - 3) \o DOTS)
    ELSE tweet1

\* tweet 1
FirstTweet(emoji, title, context_str, text) ==
    CutIntro(IntroTweet(emoji, title, context_str, extract_intro_sentence(text)),
             emoji, title, context_str, text)

\* the points of the content tweets: the bullets, or else the sentences
PointsOf(bullets, text) ==
    IF bullets = << >> THEN FallbackSentences(text) ELSE bullets

\* the closing tweet appended: the alpha take, or else the hashtags if any
WithClosing(tweets, alpha_take, context_tag, hashtags) ==
    IF ~Falsy(alpha_take) THEN Append(tweets, FinalTweet(alpha_take, context_tag, hashtags))
    ELSE IF hashtags # << >> THEN Append(tweets, hashtags)
    ELSE tweets

\* `if len(tweets) < 2: return None`, else `return tweets`
AtLeastTwo(tweets) ==
    IF Len(tweets) < 2 THEN Rejected ELSE Thread(tweets)

\* format_twitter_thread on sanitized fields
ThreadOf(title, text, hashtags, alpha_take, context_tag) ==
    IF text = << >> THEN Rejected
    ELSE AtLeastTwo(
             WithClosing(
                 ContentTweets(PointsOf(extract_bullet_points(text), text), 1,
                               << FirstTweet(TitleEmoji(title), title,
                                             Join(get_context_emojis(text, 2), SP), text) >>),
                 alpha_take, context_tag, hashtags))

\* formatting.format_twitter_thread(title, text, hashtags, alpha_take,
\* context_tag): Rejected (None) or the thread.  No statement of the try
\* block raises for str or None fields, so the except branch is never taken
format_twitter_thread(title, text, hashtags, alpha_take, context_tag) ==
    ThreadOf(safe_str(title, <<85, 112, 100, 97, 116, 101>>, 50),
             safe_str(text, << >>, MAX_TEXT_LENGTH),
             safe_str(hashtags, << >>, 150),
             alpha_take, context_tag)

(***************************************************************************)
(* formatting.format_twitter_single                                        *)
(***************************************************************************)

\* the scan of extract_short_text_safe over text[:max_chars], taken from one
\* sentence end to the next: ends lists the indices k <= max_chars with
\* text[k] in '.!?' and char_count = k > 20; current starts at cur_start.
\* KeepSentence is the body of the scan for the sentence current
RECURSIVE ShortScan(_, _, _, _, _, _)
KeepSentence(text, ends, j, current, result, max_length) ==
    IF get_twitter_length(current) <= max_length
    THEN IF Len(result) + 1 >= 3 THEN Append(result, Strip(current))
         ELSE ShortScan(text, ends, j + 1, ends[j] + 1, Append(result, Strip(current)),
                        max_length)
    ELSE result

ShortScan(text, ends, j, cur_start, result, max_length) ==
    IF j > Len(ends) THEN result
    ELSE KeepSentence(text, ends, j, SubSeq(text, cur_start, ends[j]), result, max_length)

\* the end of extract_short_text_safe: the sentences kept, joined, when
\* there are any and they fit, else the text cut to max_length - 3
ShortFinal(text, result, max_length) ==
    IF result # << >> /\ get_twitter_length(Join(result, SP)) <= max_length
    THEN Join(result, SP)
    ELSE SliceTo(text, max_length - 3) \o DOTS

\* extract_short_text_safe after `text = text.strip()`
ShortOfStripped(text, max_length) ==
    IF get_twitter_length(text) <= max_length THEN text
    ELSE ShortFinal(text,
                    ShortScan(text,
                              SelectSeq(Indices(21, Min(Len(text), max_length * 2)),
                                        LAMBDA k : IsTerminator(text[k])),
                              1, 1, << >>, max_length),
                    max_length)

\* formatting.extract_short_text_safe(text, max_length)
extract_short_text_safe(text, max_length) ==
    IF Falsy(text) \/ max_length < 10 THEN << >>
    ELSE ShortOfStripped(Strip(text), max_length)

\* the hashtags kept whatever the space left
KeepAllHashtags(hashtags) == hashtags

\* `" ".join(hashtags.split()[:2])`: the first two hashtags
ShrinkHashtags(hashtags) ==
    Join(SliceTo(SplitWs(hashtags), 2), SP)

\* the header line, with the first context emoji when there is one
HeaderLine(emoji, title, context_emojis) ==
    IF context_emojis # << >> THEN emoji \o SP \o title \o SP \o context_emojis[1]
    ELSE emoji \o SP \o title

\* the header of the single tweet
SingleHeader(title, text) ==
    HeaderLine(TitleEmoji(title), title, get_context_emojis(text, 1))

\* `max_len - reserved`
Available(header, hashtags, max_len) ==
    max_len - (get_twitter_length(header) + get_twitter_length(hashtags) + 6)

\* the final check of format_twitter_single
SafetyNet(tweet) ==
    IF get_twitter_length(tweet) > MAX_TWITTER_LENGTH THEN SliceTo(tweet, 277) \o DOTS
    ELSE tweet

\* the default of the parameter max_len
DEFAULT_MAX_LEN == 270

\* the tweet assembled from the header, the text cut to the space that
\* header and hashtags leave, and the hashtags
Assemble(header, text, hashtags, max_len) ==
    SafetyNet(header \o NLNL
                  \o extract_short_text_safe(text, Available(header, hashtags, max_len))
                  \o NLNL \o hashtags)

\* `if available < MIN_TWITTER_SPACE`: the hashtags are shrunk and the
\* space is computed again from the shrunk hashtags
WithBudget(header, text, hashtags, max_len) ==
    Assemble(header, text,
             IF Available(header, hashtags, max_len) < MIN_TWITTER_SPACE
             THEN ShrinkHashtags(hashtags)
             ELSE hashtags,
             max_len)

\* format_twitter_single on sanitized fields
SingleOf(title, text, hashtags, max_len) ==
    IF text = << >> THEN title \o NLNL \o hashtags
    ELSE WithBudget(SingleHeader(title, text), text, hashtags, max_len)

\* formatting.format_twitter_single(title, text, hashtags, max_len).  No
\* statement of the try block raises for str or None fields and a number
\* max_len, so the except branch is never taken
format_twitter_single(title, text, hashtags, max_len) ==
    SingleOf(safe_str(title, <<85, 112, 100, 97, 116, 101>>, 50),
             safe_str(text, << >>, 2000),
             safe_str(hashtags, << >>, 150),
             max_len)

(***************************************************************************)
(* formatting.format_telegram_improved                                     *)
(***************************************************************************)

MAX_LINE_COUNT == 100
MAX_TELEGRAM_LENGTH == 4000

\* "<b>", "</b>" and "Crypto Update"
B_OPEN == <<60, 98, 62>>
B_CLOSE == <<60, 47, 98, 62>>
CRYPTO_UPDATE == <<67, 114, 121, 112, 116, 111, 32, 85, 112, 100, 97, 116, 101>>

\* one stripped, non-empty line as it is put into the Telegram message
TelegramLine(line) ==
    IF CryptoPriceMatch(line) THEN detect_price_change_emoji(line) \o SP \o line
    ELSE IF ListItemMatch(line) THEN <<8226, 32>> \o ListItemSub(line)
    ELSE IF (EndsWith(line, <<58>>) \/ EndsWith(line, <<8211>>) \/ EndsWith(line, <<8212>>))
            /\ Len(line) < 50
         THEN B_OPEN \o line \o B_CLOSE
    ELSE line

\* `line = line.strip()` for every line
StrippedLines(lines) == [k \in 1..Len(lines) |-> Strip(lines[k])]

\* every line kept, as it is put into the message
TelegramLines(lines) == [k \in 1..Len(lines) |-> TelegramLine(lines[k])]

\* the loop over the lines: empty lines are skipped and the loop stops
\* after MAX_LINE_COUNT lines that are not empty
ProcessedLines(text) ==
    TelegramLines(SliceTo(SelectSeq(StrippedLines(Split(text, 10)), LAMBDA l : l # << >>),
                          MAX_LINE_COUNT))

\* the message assembled from header, lines and hashtags, before the cut
TelegramMessage(title, text, hashtags) ==
    TitleEmoji(title) \o SP \o B_OPEN \o title \o B_CLOSE
        \o NLNL \o Join(ProcessedLines(text), NLNL)
        \o (IF hashtags # << >> THEN NLNL \o hashtags ELSE << >>)

\* the cut at the limit itself, without room for the "..."
HardCutAtLimit(message) ==
    IF Len(message) > MAX_TELEGRAM_LENGTH
    THEN SliceTo(message, MAX_TELEGRAM_LENGTH) \o DOTS
    ELSE message

\* `if len(message) > MAX_TELEGRAM_LENGTH: message = message[:MAX_TELEGRAM_LENGTH-3] + "..."`
HardCut(message) ==
    IF Len(message) > MAX_TELEGRAM_LENGTH
    THEN SliceTo(message, MAX_TELEGRAM_LENGTH - 3) \o DOTS
    ELSE message

\* format_telegram_improved on sanitized fields
TelegramOf(title, text, hashtags) ==
    IF text = << >> THEN B_OPEN \o title \o B_CLOSE \o NLNL \o hashtags
    ELSE HardCut(TelegramMessage(title, text, hashtags))

\* formatting.format_telegram_improved(title, text, hashtags).  No statement
\* of the try block raises for str or None fields, so the except branch is
\* never taken
format_telegram_improved(title, text, hashtags) ==
    TelegramOf(safe_str(title, CRYPTO_UPDATE, 100),
               safe_str(text, << >>, MAX_TEXT_LENGTH),
               safe_str(hashtags, << >>, 200))

(***************************************************************************)
(* The weighted-length calculator under test: a string is measured by the  *)
(* four copies of get_twitter_length, then grown one code point at a time  *)
(* and measured again.                                                     *)
(***************************************************************************)

\* how many code points are appended to a seed string
MaxAppend == 3

\* the code points appended: a letter, a space, three pictographs (the last
\* one is in utils.EMOJI_PATTERN only) and ZERO WIDTH JOINER
CalcAlphabet == {97, 32, 128640, 127757, 129302, 8205}

\* the strings of utils._test that the appended code points complete:
\* "", "Hello " and "Bitcoin 📈 to the moon "; and the absent input
CalcSeeds ==
    { << >>,
      <<72, 101, 108, 108, 111, 32>>,
      <<66, 105, 116, 99, 111, 105, 110, 32, 128200, 32, 116, 111, 32, 116,
        104, 101, 32, 109, 111, 111, 110, 32>>,
      None }

CalcInit ==
    /\ \E seed \in CalcSeeds :
          calc = [text |-> seed, appended |-> 0, len |-> Measure(seed), prev |-> Measure(seed)]
    /\ trunc = TruncIdle
    /\ fmtr = FmtrIdle
    /\ pub = PubIdle
    /\ lock = LockIdle

\* text + c is measured; the lengths of text are kept in prev
AppendChar(c) ==
    /\ calc.text # None
    /\ calc.appended < MaxAppend
    /\ calc' = [text |-> Append(calc.text, c), appended |-> calc.appended + 1,
                len |-> Measure(Append(calc.text, c)), prev |-> calc.len]
    /\ UNCHANGED <<trunc, fmtr, pub, lock>>

CalcNext == \E c \in CalcAlphabet : AppendChar(c)

SpecCalc == CalcInit /\ [][CalcNext]_vars

\* "Hello 🌍" and "🚀🚀🚀"
HelloGlobe == <<72, 101, 108, 108, 111, 32, 127757>>
ThreeRockets == <<128640, 128640, 128640>>

\* the code points of text that lie in the wide range table of utils.py
WidePositions(text) == {i \in 1..Len(text) : InClass(text[i], EMOJI_PATTERN)}

\* C7: utils.get_twitter_length(text) is the number of code points of text
\* plus the number of its code points in the wide range table, each one
\* counted on its own even next to another one; 0 for "" and for None;
\* 8 for "Hello 🌍" and 6 for "🚀🚀🚀".
C7_UtilsLengthPerCodePoint ==
    /\ Falsy(calc.text) => calc.len.utils = 0
    /\ ~Falsy(calc.text) =>
          calc.len.utils = Len(calc.text) + Cardinality(WidePositions(calc.text))
    /\ calc.text = HelloGlobe => calc.len.utils = 8
    /\ calc.text = ThreeRockets => calc.len.utils = 6

\* three adjacent wide code points have been measured
C7_Witness == calc.text = ThreeRockets /\ calc.len.utils = 6

\* C8: appending one code point to a string never decreases its weighted
\* length, under each of the four copies of get_twitter_length.
C8_AppendNeverDecreases ==
    /\ calc.len.utils >= calc.prev.utils
    /\ calc.len.formatting >= calc.prev.formatting
    /\ calc.len.openai >= calc.prev.openai
    /\ calc.len.parser >= calc.prev.parser

\* a wide code point was appended right after another one: the run of the
\* "+" pattern grows and the length grows by one only
C8_Witness ==
    /\ calc.appended >= 2
    /\ InClass(calc.text[Len(calc.text)], emoji_pattern)
    /\ InClass(calc.text[Len(calc.text) - 1], emoji_pattern)
    /\ calc.len.formatting = calc.prev.formatting + 1
    /\ calc.len.utils = calc.prev.utils + 2


(***************************************************************************)
(* The composers under test: one formatting request (title, body,          *)
(* hashtags, optional alpha take and context tag) is given to              *)
(* format_twitter_thread and to format_twitter_single, in either order.    *)
(***************************************************************************)

\* the largest number of bullet lines and of sentences in a body
MaxBullets == 8
MaxSentences == 6

\* "Market Analysis", and a title of 50 code points, every other one wide
TITLE_MARKET == <<77, 97, 114, 107, 101, 116, 32, 65, 110, 97, 108, 121, 115, 105, 115>>
TITLE_WIDE == Rep(<<128640, 97>>, 25)

\* "#Bitcoin #CryptoMarket"; ten hashtags "#CryptoMarket"; one hashtag of
\* 150 code points, every other one wide
TAGS_TWO == <<35, 66, 105, 116, 99, 111, 105, 110, 32, 35, 67, 114, 121, 112, 116, 111,
              77, 97, 114, 107, 101, 116>>
TAGS_TEN == Rep(<<35, 67, 114, 121, 112, 116, 111, 77, 97, 114, 107, 101, 116, 32>>, 10)
TAGS_WIDE == <<35>> \o Rep(<<128640, 97>>, 74) \o <<98>>

\* a hashtag of 121 code points, every other one wide, then " #b #c"
TAGS_WIDE_THREE == <<35>> \o Rep(<<128640, 97>>, 60) \o <<32, 35, 98, 32, 35, 99>>

\* "Whales are accumulating." and "Bullish"
ALPHA_SHORT == <<87, 104, 97, 108, 101, 115, 32, 97, 114, 101, 32, 97, 99, 99, 117, 109,
                 117, 108, 97, 116, 105, 110, 103, 46>>
CTX_BULLISH == <<66, 117, 108, 108, 105, 115, 104>>

\* k lines "- xxx...x" with n letters each
Bullets(k, n) == Join([i \in 1..k |-> <<45, 32>> \o Rep(<<120>>, n)], <<10>>)

\* k sentences "Bitcoin rally continues today. "
Sentences(k) ==
    Rep(<<66, 105, 116, 99, 111, 105, 110, 32, 114, 97, 108, 108, 121, 32, 99, 111, 110,
          116, 105, 110, 117, 101, 115, 32, 116, 111, 100, 97, 121, 46, 32>>, k)

\* the body of scenario A: an intro sentence and three bullet lines
BODY_SCENARIO_A ==
    <<66, 84, 67, 32, 40, 43, 53, 46, 50, 37, 41, 32, 98, 114, 111, 107, 101, 32, 114, 101,
      115, 105, 115, 116, 97, 110, 99, 101, 46, 10, 45, 32, 87, 104, 97, 108, 101, 115, 32,
      97, 99, 99, 117, 109, 117, 108, 97, 116, 101, 100, 32, 49, 48, 107, 32, 66, 84, 67,
      10, 45, 32, 70, 117, 110, 100, 105, 110, 103, 32, 114, 97, 116, 101, 115, 32, 116,
      117, 114, 110, 101, 100, 32, 112, 111, 115, 105, 116, 105, 118, 101, 10, 45, 32, 79,
      112, 101, 110, 32, 105, 110, 116, 101, 114, 101, 115, 116, 32, 117, 112, 32, 49, 50,
      37>>

\* "", "  \n ", "short", 200 times "🚀a" and 400 times "a"
BODY_BLANK == <<32, 32, 10, 32>>
BODY_SHORT == <<115, 104, 111, 114, 116>>
BODY_WIDE == Rep(<<128640, 97>>, 200)
BODY_PLAIN == Rep(<<97>>, 400)

\* k lines "- aaa...a", "- bbb...b", ... of 60, 70, ... letters
GradedBullets(k) ==
    Join([i \in 1..k |-> <<45, 32>> \o Rep(<<96 + i>>, 50 + 10 * i)], <<10>>)

\* nine sentences, all different, the 2nd, 4th and 9th of at most 20 characters:
\* "Bitcoin rally continues today. Short one. Ethereum follows with strong
\* gains! Ok? Solana network upgrade is live now. Traders expect more
\* volatility ahead. Funding rates turned positive again. Open interest keeps
\* climbing fast. Whales keep buying."
BODY_MIXED_SENTENCES ==
    <<66, 105, 116, 99, 111, 105, 110, 32, 114, 97, 108, 108, 121, 32, 99, 111, 110,
      116, 105, 110, 117, 101, 115, 32, 116, 111, 100, 97, 121, 46, 32, 83, 104, 111,
      114, 116, 32, 111, 110, 101, 46, 32, 69, 116, 104, 101, 114, 101, 117, 109, 32,
      102, 111, 108, 108, 111, 119, 115, 32, 119, 105, 116, 104, 32, 115, 116, 114,
      111, 110, 103, 32, 103, 97, 105, 110, 115, 33, 32, 79, 107, 63, 32, 83, 111,
      108, 97, 110, 97, 32, 110, 101, 116, 119, 111, 114, 107, 32, 117, 112, 103, 114,
      97, 100, 101, 32, 105, 115, 32, 108, 105, 118, 101, 32, 110, 111, 119, 46, 32,
      84, 114, 97, 100, 101, 114, 115, 32, 101, 120, 112, 101, 99, 116, 32, 109, 111,
      114, 101, 32, 118, 111, 108, 97, 116, 105, 108, 105, 116, 121, 32, 97, 104, 101,
      97, 100, 46, 32, 70, 117, 110, 100, 105, 110, 103, 32, 114, 97, 116, 101, 115,
      32, 116, 117, 114, 110, 101, 100, 32, 112, 111, 115, 105, 116, 105, 118, 101,
      32, 97, 103, 97, 105, 110, 46, 32, 79, 112, 101, 110, 32, 105, 110, 116, 101,
      114, 101, 115, 116, 32, 107, 101, 101, 112, 115, 32, 99, 108, 105, 109, 98, 105,
      110, 103, 32, 102, 97, 115, 116, 46, 32, 87, 104, 97, 108, 101, 115, 32, 107,
      101, 101, 112, 32, 98, 117, 121, 105, 110, 103, 46>>

\* bodies with structure: bullets of 12, 90 and 120 letters, bullets that
\* differ from one another, sentences
StructuredBodies ==
    {Bullets(k, n) : k \in 1..MaxBullets, n \in {12, 90, 120}}
        \cup {Sentences(k) : k \in 1..MaxSentences}
        \cup {BODY_SCENARIO_A, BODY_SHORT, GradedBullets(MaxBullets), BODY_MIXED_SENTENCES}

\* bodies that strain the budget, and the empty ones
ExtremeBodies == {<< >>, BODY_BLANK, None, BODY_WIDE, BODY_PLAIN, Sentences(3)}

\* the (alpha_take, context_tag) pairs
AlphaPairs ==
    { <<None, None>>, <<ALPHA_SHORT, CTX_BULLISH>>, <<ALPHA_SHORT, None>>,
      <<Rep(<<128640, 97>>, 300), CTX_BULLISH>>, <<ALPHA_SHORT, Rep(<<99>>, 300)>> }

Request(title, text, hashtags, pair) ==
    [title |-> title, text |-> text, hashtags |-> hashtags,
     alpha_take |-> pair[1], context_tag |-> pair[2]]

FmtRequests ==
    {Request(TITLE_MARKET, text, hashtags, pair) :
        text \in StructuredBodies, hashtags \in {<< >>, TAGS_TWO},
        pair \in {<<None, None>>, <<ALPHA_SHORT, CTX_BULLISH>>}}
    \cup
    {Request(title, text, hashtags, pair) :
        title \in {TITLE_MARKET, TITLE_WIDE, None}, text \in ExtremeBodies,
        hashtags \in {<< >>, TAGS_TWO, TAGS_TEN, TAGS_WIDE, TAGS_WIDE_THREE}, pair \in AlphaPairs}

\* no call made yet
NoThread == [called |-> FALSE, rejected |-> FALSE, tweets |-> << >>]
NoSingle == [called |-> FALSE, rejected |-> FALSE, tweet |-> << >>]

FmtInit ==
    /\ \E req \in FmtRequests : fmtr = [req |-> req, thread |-> NoThread, single |-> NoSingle]
    /\ calc = CalcIdle
    /\ trunc = TruncIdle
    /\ pub = PubIdle
    /\ lock = LockIdle

\* the thread composer's answer, recorded
ThreadAnswer(r) == [called |-> TRUE, rejected |-> r.rejected, tweets |-> r.tweets]

\* the caller asks for a thread
FormatTwitterThread ==
    /\ ~fmtr.thread.called
    /\ fmtr' = [fmtr EXCEPT !.thread =
                   ThreadAnswer(format_twitter_thread(fmtr.req.title, fmtr.req.text,
                                                      fmtr.req.hashtags, fmtr.req.alpha_take,
                                                      fmtr.req.context_tag))]
    /\ UNCHANGED <<calc, trunc, pub, lock>>

\* the caller asks for a single tweet; every return statement of
\* format_twitter_single returns a string, none a rejection
FormatTwitterSingle ==
    /\ ~fmtr.single.called
    /\ fmtr' = [fmtr EXCEPT !.single =
                   [called |-> TRUE, rejected |-> FALSE,
                    tweet |-> format_twitter_single(fmtr.req.title, fmtr.req.text,
                                                    fmtr.req.hashtags, DEFAULT_MAX_LEN)]]
    /\ UNCHANGED <<calc, trunc, pub, lock>>

FmtNext == FormatTwitterThread \/ FormatTwitterSingle

SpecFmt == FmtInit /\ [][FmtNext]_vars

\* a thread was returned
ThreadReturned == fmtr.thread.called /\ ~fmtr.thread.rejected

\* the body is empty or whitespace-only (or absent)
EmptyBody ==
    \/ fmtr.req.text = None
    \/ \A i \in 1..Len(fmtr.req.text) : IsSpace(fmtr.req.text[i])

\* C1: every message of a thread returned by format_twitter_thread (intro,
\* content and closing message) has weighted length <= 280.
C1_ThreadTweetsWithinLimit ==
    ThreadReturned =>
        \A k \in 1..Len(fmtr.thread.tweets) :
            get_twitter_length(fmtr.thread.tweets[k]) <= MAX_TWITTER_LENGTH

\* C2: format_twitter_single always returns a message, and its weighted
\* length is <= 280.
C2_SingleWithinLimit ==
    fmtr.single.called =>
        /\ ~fmtr.single.rejected
        /\ get_twitter_length(fmtr.single.tweet) <= MAX_TWITTER_LENGTH

\* C3: a thread returned by format_twitter_thread has between 2 and
\* MAX_THREAD_TWEETS (5) messages; a shorter result is returned as None.
C3_ThreadSize ==
    ThreadReturned =>
        /\ Len(fmtr.thread.tweets) >= 2
        /\ Len(fmtr.thread.tweets) <= MAX_THREAD_TWEETS

\* a thread of five messages: the intro, three content messages that leave
\* points over, and the alpha take
C3_Witness ==
    /\ ThreadReturned
    /\ Len(fmtr.thread.tweets) = MAX_THREAD_TWEETS
    /\ fmtr.req.alpha_take = ALPHA_SHORT
    /\ fmtr.req.text = Bullets(MaxBullets, 120)

\* C9 as claimed: with an empty or whitespace-only body both composers
\* refuse: format_twitter_thread and format_twitter_single each signal
\* EmptyInput and return no message.
C9_BothComposersRefuseEmptyBody ==
    EmptyBody =>
        /\ fmtr.thread.called => fmtr.thread.rejected
        /\ fmtr.single.called => fmtr.single.rejected

\* C9 as amended: with an empty or whitespace-only body format_twitter_thread
\* returns no thread, and format_twitter_single returns the message made of
\* the normalized title, a blank line and the normalized hashtags.
C9_EmptyBody ==
    EmptyBody =>
        /\ fmtr.thread.called => fmtr.thread.rejected
        /\ fmtr.single.called =>
              /\ ~fmtr.single.rejected
              /\ fmtr.single.tweet =
                    safe_str(fmtr.req.title, <<85, 112, 100, 97, 116, 101>>, 50) \o NLNL
                        \o safe_str(fmtr.req.hashtags, << >>, 150)

\* both composers have answered a whitespace-only body
C9_Witness ==
    /\ fmtr.req.text = BODY_BLANK
    /\ fmtr.thread.called
    /\ fmtr.single.called

\* the fixed fields of the single tweet, as format_twitter_single sees them
ReqTitle == safe_str(fmtr.req.title, <<85, 112, 100, 97, 116, 101>>, 50)
ReqText == safe_str(fmtr.req.text, << >>, 2000)
ReqHashtags == safe_str(fmtr.req.hashtags, << >>, 150)
ReqHeader == SingleHeader(ReqTitle, ReqText)

\* the first two whitespace-separated hashtags, joined by one space
FirstTwoTags ==
    LET tags == SplitWs(ReqHashtags)
    IN  IF Len(tags) = 0 THEN << >>
        ELSE IF Len(tags) = 1 THEN tags[1]
        ELSE tags[1] \o SP \o tags[2]

\* the space left for the body before and after the hashtags are shrunk
SpaceBeforeShrink == Available(ReqHeader, ReqHashtags, DEFAULT_MAX_LEN)
SpaceAfterShrink == Available(ReqHeader, FirstTwoTags, DEFAULT_MAX_LEN)

\* header and hashtags leave less than MIN_TWITTER_SPACE for a body
TooLittleSpace ==
    /\ fmtr.single.called
    /\ ~EmptyBody
    /\ SpaceBeforeShrink < MIN_TWITTER_SPACE

\* C10 as claimed: when the space left for the body is still below
\* MIN_TWITTER_SPACE after the hashtags are shrunk, format_twitter_single
\* signals InsufficientBudget instead of assembling a message.
C10_SignalsInsufficientBudget ==
    (TooLittleSpace /\ SpaceAfterShrink < MIN_TWITTER_SPACE) => fmtr.single.rejected

\* C10 as amended: when header and hashtags leave less than
\* MIN_TWITTER_SPACE, the hashtags are cut once to their first two and the
\* space recomputed; whatever space is then left, no error is signalled: the
\* body is cut to that space (empty below 10) and the message is assembled
\* and passed through the final cut to 277 code points plus "...".
C10_ShrinkOnceThenAssemble ==
    TooLittleSpace =>
        /\ ~fmtr.single.rejected
        /\ fmtr.single.tweet =
              SafetyNet(ReqHeader \o NLNL \o extract_short_text_safe(ReqText, SpaceAfterShrink)
                            \o NLNL \o FirstTwoTags)

\* the space is below the threshold before the shrink and after it, and
\* the hashtags were in fact shrunk
C10_Witness ==
    /\ TooLittleSpace
    /\ SpaceAfterShrink < MIN_TWITTER_SPACE
    /\ FirstTwoTags # ReqHashtags

\* the body as format_twitter_thread sees it, and the units it extracts
\* from it: the bullets, or else the sentences of the fallback
ThreadText == safe_str(fmtr.req.text, << >>, MAX_TEXT_LENGTH)
ThreadBullets == extract_bullet_points(ThreadText)
ThreadUnits == PointsOf(ThreadBullets, ThreadText)

\* neither the bullet extraction nor the sentence fallback yields a unit
NoUnits ==
    /\ ThreadBullets = << >>
    /\ FallbackSentences(ThreadText) = << >>

\* C11: when extract_bullet_points yields no unit and the sentence-split
\* fallback yields none either, format_twitter_thread rejects (returns
\* None); it never returns a thread of only the intro and the closing message.
C11_NoUnitsRejected ==
    (fmtr.thread.called /\ NoUnits) => fmtr.thread.rejected

(***************************************************************************)
(* formatting.send_improved and the publisher it hands the Twitter content *)
(* to, parser.send_twitter_thread.  One call of send_improved is followed  *)
(* step by step: each call of the Twitter API is a step of its own, with   *)
(* every outcome the publisher tells apart.                                *)
(***************************************************************************)

\* formatting.TWITTER_MODE and the two modes
MODE_THREAD == "thread"
MODE_SINGLE == "single"
TWITTER_MODE == MODE_THREAD

\* no tweet identifier (None)
NoId == 0

\* what a call of client.create_tweet can come to: a response with an
\* identifier, a response whose identifier is missing, no usable response,
\* and the three kinds of TweepyException the publisher tells apart
Outcomes == {"ok", "no_id", "empty", "rate_limit", "duplicate", "error"}

\* the thread is handed on whatever the composer answered
ThreadUsableAlways(r) == TRUE

\* `if tweets and len(tweets) >= 2` in send_improved
ThreadUsable(r) == ~r.rejected /\ Len(r.tweets) >= 2

\* twitter_content after step 7 of send_improved: the dictionary starts
\* with the mode TWITTER_MODE and without the keys "tweets" and "tweet"
TwitterContent(mode, r, title, text, hashtags) ==
    IF mode = MODE_THREAD /\ ThreadUsable(r)
    THEN [mode |-> MODE_THREAD, has_tweets |-> TRUE, tweets |-> r.tweets,
          has_tweet |-> FALSE, tweet |-> << >>]
    ELSE [mode |-> MODE_SINGLE, has_tweets |-> FALSE, tweets |-> << >>,
          has_tweet |-> TRUE,
          tweet |-> format_twitter_single(title, text, hashtags, DEFAULT_MAX_LEN)]

\* no content built
NoContent ==
    [mode |-> TWITTER_MODE, has_tweets |-> FALSE, tweets |-> << >>,
     has_tweet |-> FALSE, tweet |-> << >>]

\* the requests given to send_improved: title and hashtags of the
\* configuration, the text left by extract_tldr_fn and clean_text_fn
SendRequests ==
    {Request(TITLE_MARKET, text, hashtags, pair) :
        text \in {<< >>, BODY_BLANK, BODY_SHORT, BODY_SCENARIO_A, Bullets(5, 90),
                  Bullets(MaxBullets, 120), Sentences(3)},
        hashtags \in {<< >>, TAGS_TWO},
        pair \in {<<None, None>>, <<ALPHA_SHORT, CTX_BULLISH>>}}

SendInit ==
    /\ \E req \in SendRequests, twitter_on \in BOOLEAN :
          pub = [pc |-> "start", req |-> req, twitter_on |-> twitter_on,
                 tg_message |-> << >>, tg_success |-> FALSE, image |-> FALSE,
                 thread |-> NoThread, content |-> NoContent, handed |-> FALSE,
                 media |-> FALSE, i |-> 1, previous_tweet_id |-> NoId,
                 published_count |-> 0, calls |-> << >>, result |-> "none"]
    /\ calc = CalcIdle
    /\ trunc = TruncIdle
    /\ fmtr = FmtrIdle
    /\ lock = LockIdle

\* send_improved up to the call of send_twitter_thread_fn.  An empty text
\* ends it at once; image says whether get_image_fn gave a URL, tg_success
\* what the Telegram send function answered
SendImproved ==
    /\ pub.pc = "start"
    /\ IF Falsy(pub.req.text)
       THEN pub' = [pub EXCEPT !.pc = "returned"]
       ELSE \E image \in BOOLEAN, tg_success \in BOOLEAN :
              pub' = [pub EXCEPT
                        !.tg_message = format_telegram_improved(pub.req.title, pub.req.text,
                                                                pub.req.hashtags),
                        !.tg_success = tg_success,
                        !.image = image,
                        !.thread = IF pub.twitter_on /\ TWITTER_MODE = MODE_THREAD
                                   THEN ThreadAnswer(format_twitter_thread(
                                            pub.req.title, pub.req.text, pub.req.hashtags,
                                            pub.req.alpha_take, pub.req.context_tag))
                                   ELSE NoThread,
                        !.content = IF pub.twitter_on
                                    THEN TwitterContent(TWITTER_MODE,
                                             format_twitter_thread(
                                                 pub.req.title, pub.req.text, pub.req.hashtags,
                                                 pub.req.alpha_take, pub.req.context_tag),
                                             pub.req.title, pub.req.text, pub.req.hashtags)
                                    ELSE NoContent,
                        !.handed = pub.twitter_on,
                        !.pc = IF pub.twitter_on THEN "handed" ELSE "returned"]
    /\ UNCHANGED <<calc, trunc, fmtr, lock>>

\* one call of client.create_tweet, as the publisher made it: the index of
\* the tweet in the thread (1 for a single tweet), the identifier given as
\* in_reply_to_tweet_id (NoId when the parameter is absent), whether
\* media_ids was given, what the call came to and the identifier returned
Call(index, in_reply_to, media, outcome, id) ==
    [index |-> index, in_reply_to |-> in_reply_to, media |-> media,
     outcome |-> outcome, id |-> id]

\* the identifier the API gives the tweet created by the next call
FreshId == Len(pub.calls) + 1

\* the end of the thread branch: `published_count >= 1` decides the result
ThreadResult(published_count) == published_count >= 1

\* send_twitter_thread up to the dispatch on the mode: enabled says whether
\* TWITTER_ENABLED holds and init_twitter_client gave a client, uploaded
\* whether the image was uploaded.  A thread of fewer than 2 tweets is
\* published as a single tweet; a content that is neither ends with None
SendTwitterThreadBegin ==
    /\ pub.pc = "handed"
    /\ \E enabled \in BOOLEAN, uploaded \in BOOLEAN :
          IF ~enabled
          THEN pub' = [pub EXCEPT !.pc = "returned", !.result = "False"]
          ELSE IF pub.content.mode = MODE_THREAD /\ pub.content.has_tweets
                  /\ Len(pub.content.tweets) >= 2
               THEN pub' = [pub EXCEPT !.pc = "thread", !.media = pub.image /\ uploaded,
                                       !.i = 1, !.previous_tweet_id = NoId,
                                       !.published_count = 0]
               ELSE IF pub.content.mode = MODE_SINGLE
                       \/ (pub.content.mode = MODE_THREAD /\ pub.content.has_tweets)
                    THEN pub' = [pub EXCEPT !.pc = "single", !.media = pub.image /\ uploaded]
                    ELSE pub' = [pub EXCEPT !.pc = "returned", !.result = "None"]
    /\ UNCHANGED <<calc, trunc, fmtr, lock>>

\* the identifier the loop gives as in_reply_to_tweet_id for tweet i
ReplyTo(i, media, previous_tweet_id) ==
    IF i = 1 /\ media THEN NoId ELSE previous_tweet_id

\* a loop that leaves only on a rate limit and goes on to the next tweet
\* after any other failure
EndsLoopOnRateLimitOnly(outcome) == outcome = "rate_limit"

\* the outcomes of create_tweet that end the loop over the tweets: `break`
\* for a response without data or without identifier, `return` for a rate
\* limit and for an error that is not a duplicate
EndsLoop(outcome) == outcome \in {"no_id", "empty", "rate_limit", "error"}

\* one turn of the loop over the tweets of the thread.  After the last
\* tweet, or after a break, the result follows from published_count
CreateThreadTweet ==
    /\ pub.pc = "thread"
    /\ pub.i <= Len(pub.content.tweets)
    /\ \E outcome \in Outcomes :
          LET call == Call(pub.i, ReplyTo(pub.i, pub.media, pub.previous_tweet_id),
                           pub.i = 1 /\ pub.media, outcome,
                           IF outcome = "ok" THEN FreshId ELSE NoId)
              last == pub.i = Len(pub.content.tweets)
          IN  CASE outcome = "ok" ->
                     pub' = [pub EXCEPT
                               !.calls = Append(@, call),
                               !.previous_tweet_id = FreshId,
                               !.published_count = @ + 1,
                               !.i = @ + 1,
                               !.pc = IF last THEN "returned" ELSE "thread",
                               !.result = IF last THEN "True" ELSE "none"]
                [] outcome # "ok" /\ EndsLoop(outcome) ->
                     pub' = [pub EXCEPT
                               !.calls = Append(@, call),
                               !.pc = "returned",
                               !.result = IF ThreadResult(pub.published_count)
                                          THEN "True" ELSE "False"]
                [] outcome # "ok" /\ ~EndsLoop(outcome) ->
                     pub' = [pub EXCEPT
                               !.calls = Append(@, call),
                               !.i = @ + 1,
                               !.pc = IF last THEN "returned" ELSE "thread",
                               !.result = IF ~last THEN "none"
                                          ELSE IF ThreadResult(pub.published_count)
                                               THEN "True" ELSE "False"]
    /\ UNCHANGED <<calc, trunc, fmtr, lock>>

\* the single tweet: a missing text ends with False, a rate limit and a
\* duplicate count as success, another error is tried again without the
\* image when there is one
CreateSingleTweet ==
    /\ pub.pc = "single"
    /\ IF ~pub.content.has_tweet \/ Falsy(pub.content.tweet)
       THEN pub' = [pub EXCEPT !.pc = "returned", !.result = "False"]
       ELSE \E outcome \in Outcomes :
              pub' = [pub EXCEPT
                        !.calls = Append(@, Call(1, NoId, pub.media, outcome,
                                                 IF outcome = "ok" THEN FreshId ELSE NoId)),
                        !.pc = IF outcome = "error" /\ pub.media THEN "retry" ELSE "returned",
                        !.result = IF outcome \in {"ok", "rate_limit", "duplicate"} THEN "True"
                                   ELSE IF outcome = "error" /\ pub.media THEN "none"
                                   ELSE "False"]
    /\ UNCHANGED <<calc, trunc, fmtr, lock>>

\* the second try of the single tweet, without the image: any response
\* that has data counts as success, any exception as failure
RetryWithoutImage ==
    /\ pub.pc = "retry"
    /\ \E outcome \in Outcomes :
          pub' = [pub EXCEPT
                    !.calls = Append(@, Call(1, NoId, FALSE, outcome,
                                             IF outcome = "ok" THEN FreshId ELSE NoId)),
                    !.pc = "returned",
                    !.result = IF outcome \in {"ok", "no_id"} THEN "True" ELSE "False"]
    /\ UNCHANGED <<calc, trunc, fmtr, lock>>

SendNext ==
    \/ SendImproved
    \/ SendTwitterThreadBegin
    \/ CreateThreadTweet
    \/ CreateSingleTweet
    \/ RetryWithoutImage

SpecSend == SendInit /\ [][SendNext]_vars

\* C12: in send_improved with TWITTER_MODE "thread", whenever
\* format_twitter_thread rejects (None, or fewer than 2 messages), the
\* content handed to the publisher has mode "single" and carries the tweet
\* of format_twitter_single; no thread of fewer than 2 messages is handed
\* to the publisher as a thread.
C12_RejectedThreadFallsBack ==
    (pub.handed /\ TWITTER_MODE = MODE_THREAD) =>
        /\ (pub.thread.rejected \/ Len(pub.thread.tweets) < 2) =>
              /\ pub.content.mode = MODE_SINGLE
              /\ ~pub.content.has_tweets
              /\ pub.content.has_tweet
              /\ pub.content.tweet =
                    format_twitter_single(pub.req.title, pub.req.text, pub.req.hashtags,
                                          DEFAULT_MAX_LEN)
        /\ pub.content.mode = MODE_THREAD =>
              /\ pub.content.has_tweets
              /\ Len(pub.content.tweets) >= 2

\* a body with one short sentence and nothing to close the thread with:
\* the thread composer rejected it and the content was handed on
C12_Witness ==
    /\ pub.handed
    /\ pub.thread.called
    /\ pub.thread.rejected
    /\ pub.req.text = BODY_SHORT
    /\ pub.content.mode = MODE_SINGLE

\* the publisher took the thread branch of send_twitter_thread
PublishingThread ==
    /\ pub.content.mode = MODE_THREAD
    /\ pub.content.has_tweets
    /\ Len(pub.content.tweets) >= 2

\* C13: when send_twitter_thread publishes a thread, the messages are
\* submitted strictly in index order and every message submitted after the
\* first is a reply to the identifier of the previous message of the
\* thread, also when a tweet is reported as a duplicate.
C13_ThreadPostedAsChain ==
    PublishingThread =>
        \A k \in 1..Len(pub.calls) :
            /\ k > 1 => pub.calls[k].index > pub.calls[k - 1].index
            /\ pub.calls[k].index > 1 =>
                  /\ pub.calls[k].in_reply_to # NoId
                  /\ \E j \in 1..(k - 1) :
                        /\ pub.calls[j].index = pub.calls[k].index - 1
                        /\ pub.calls[j].id = pub.calls[k].in_reply_to

\* the request of scenario A: title "Market Analysis", the intro sentence
\* and three bullet lines, hashtags "#Bitcoin #CryptoMarket", no alpha take
ScenarioA ==
    fmtr.req = Request(TITLE_MARKET, BODY_SCENARIO_A, TAGS_TWO, <<None, None>>)

\* "BTC (+5.2%) broke resistance.", the intro sentence of scenario A
INTRO_SCENARIO_A == SubSeq(BODY_SCENARIO_A, 1, 29)

\* C14: for scenario A format_twitter_thread returns a thread of 2 or 3
\* messages whose first message contains the header, the intro sentence and
\* the continuation marker, each message of weighted length <= 280.
C14_ScenarioAThread ==
    (fmtr.thread.called /\ ScenarioA) =>
        /\ ~fmtr.thread.rejected
        /\ Len(fmtr.thread.tweets) \in {2, 3}
        /\ StartsWith(fmtr.thread.tweets[1], TitleEmoji(TITLE_MARKET) \o SP \o TITLE_MARKET)
        /\ Contains(fmtr.thread.tweets[1], INTRO_SCENARIO_A)
        /\ EndsWith(fmtr.thread.tweets[1], THREAD_MARK)
        /\ \A k \in 1..Len(fmtr.thread.tweets) :
              get_twitter_length(fmtr.thread.tweets[k]) <= MAX_TWITTER_LENGTH

\* the units of the thread as they are written into a content message
FormattedUnits == [k \in 1..Len(ThreadUnits) |-> FormatPoint(ThreadUnits[k])]

\* the hashtags as format_twitter_thread sees them, and whether the thread
\* ends with a closing message
ThreadHashtags == safe_str(fmtr.req.hashtags, << >>, 150)
HasClosing == ~Falsy(fmtr.req.alpha_take) \/ ThreadHashtags # << >>

\* the content messages of the thread returned: those between the intro
\* and the closing message
ContentMessages ==
    SubSeq(fmtr.thread.tweets, 2, Len(fmtr.thread.tweets) - (IF HasClosing THEN 1 ELSE 0))

\* the units start .. start + n - 1 joined as one message
BatchOf(units, start, n) == Join(SubSeq(units, start, start + n - 1), NLNL)

\* there are n units from start on and together they fit one message
Fits(units, start, n) ==
    /\ start + n - 1 <= Len(units)
    /\ get_twitter_length(BatchOf(units, start, n)) <= MAX_TWITTER_LENGTH

\* the largest of a non-empty set of counts, 1 for the empty set
MostOf(counts) ==
    IF counts = {} THEN 1 ELSE CHOOSE n \in counts : \A m \in counts : m <= n

\* the most units, up to 3, that fit one message from start on
FitCount(units, start) == MostOf({n \in 1..3 : Fits(units, start, n)})

\* message j holds the n units from start on, n being the most that fit,
\* and so do the messages after it
RECURSIVE BatchesFrom(_, _, _, _)
BatchIs(units, msgs, j, start, n) ==
    /\ start <= Len(units)
    /\ Fits(units, start, n)
    /\ msgs[j] = BatchOf(units, start, n)
    /\ get_twitter_length(msgs[j]) <= MAX_TWITTER_LENGTH
    /\ j < Len(msgs) => (n = 3 \/ ~Fits(units, start, n + 1))
    /\ BatchesFrom(units, msgs, j + 1, start + n)

BatchesFrom(units, msgs, j, start) ==
    j <= Len(msgs) => BatchIs(units, msgs, j, start, FitCount(units, start))

\* C15: every content message of a thread carries at least 1 and at most 3
\* units and has weighted length <= 280; a message is closed and the next
\* begun exactly when it holds 3 units or the next unit would push it above
\* 280, so that 5 units of 90 are split across at least 2 content messages.
C15_BatchesOfUpToThree ==
    ThreadReturned =>
        /\ BatchesFrom(FormattedUnits, ContentMessages, 1, 1)
        /\ fmtr.req.text = Bullets(5, 90) => Len(ContentMessages) >= 2

\* scenario D: 5 bullets of 90 letters, in two content messages of 3 and 2
C15_Witness ==
    /\ ThreadReturned
    /\ fmtr.req.text = Bullets(5, 90)
    /\ Len(ContentMessages) = 2
    /\ ContentMessages[1] = BatchOf(FormattedUnits, 1, 3)
    /\ ContentMessages[2] = BatchOf(FormattedUnits, 4, 2)

\* C17: the units carried by the content messages are, read in message
\* order, a prefix of the extracted unit sequence: none is reordered,
\* duplicated or skipped, and units are dropped from the end only.
C17_UnitsArePrefix ==
    ThreadReturned =>
        \E p \in 0..Len(FormattedUnits) :
            Join(ContentMessages, NLNL) = Join(SubSeq(FormattedUnits, 1, p), NLNL)

\* 8 bullets that differ, the later ones too long to share a message three
\* at a time: the unit that did not fit the second message began the third,
\* and the unit left after the third message was dropped
C17_Witness ==
    /\ ThreadReturned
    /\ fmtr.req.text = GradedBullets(MaxBullets)
    /\ Len(FormattedUnits) = MaxBullets
    /\ Len(ContentMessages) = 3
    /\ ContentMessages[2] = BatchOf(FormattedUnits, 4, 2)
    /\ ContentMessages[3] = BatchOf(FormattedUnits, 6, 2)

\* the last message of the thread returned, and the context tag and the
\* hashtags as they follow the alpha take in a closing message
LastMessage == fmtr.thread.tweets[Len(fmtr.thread.tweets)]
ClosingFooter ==
    (IF ~Falsy(fmtr.req.context_tag) THEN CONTEXT_LABEL \o fmtr.req.context_tag ELSE << >>)
        \o NLNL \o ThreadHashtags

\* the message is the alpha header, the alpha take whole or cut to a prefix
\* followed by "...", and the footer
KeepsAlphaAndFooter(message) ==
    \E n \in 0..Len(fmtr.req.alpha_take) :
        \/ message = ALPHA_HEADER \o SubSeq(fmtr.req.alpha_take, 1, n) \o DOTS \o ClosingFooter
        \/ message = ALPHA_HEADER \o fmtr.req.alpha_take \o ClosingFooter

\* C16: the closing message is the last message of a thread; with an alpha
\* take it keeps the alpha take, and when too long it is made to fit 280 by
\* shortening the alpha-take text first, the context tag and the hashtags
\* being kept whenever they fit together with a shortened alpha take.
C16_ClosingKeepsAlpha ==
    (ThreadReturned /\ ~Falsy(fmtr.req.alpha_take)) =>
        /\ StartsWith(LastMessage, ALPHA_HEADER)
        /\ get_twitter_length(LastMessage) <= MAX_TWITTER_LENGTH
        /\ get_twitter_length(ALPHA_HEADER \o DOTS \o ClosingFooter) <= MAX_TWITTER_LENGTH
              => KeepsAlphaAndFooter(LastMessage)

\* the sentences of the body, stripped, that are longer than 20 code points,
\* in the order of the text
LongSentences ==
    SelectSeq([k \in 1..Len(SentenceSplit(ThreadText)) |-> Strip(SentenceSplit(ThreadText)[k])],
              LAMBDA x : Len(x) > 20)

\* the first p of the units, as one text of content messages
FirstUnits(units, p) ==
    Join([k \in 1..p |-> FormatPoint(units[k])], NLNL)

\* C19: the sentences are the units of the thread if and only if
\* extract_bullet_points finds no unit; the sentences used are those longer
\* than 20 code points, in the order of the text, and at most 5 of them.
C19_SentenceFallback ==
    ThreadReturned =>
        /\ ThreadBullets # << >> =>
              \E p \in 1..Len(ThreadBullets) :
                  Join(ContentMessages, NLNL) = FirstUnits(ThreadBullets, p)
        /\ ThreadBullets = << >> =>
              \E p \in 0..Min(5, Len(LongSentences)) :
                  /\ Join(ContentMessages, NLNL) = FirstUnits(LongSentences, p)
                  /\ LongSentences # << >> => p >= 1

\* nine sentences and no bullet: six sentences are long enough, and the
\* content messages carry the first five of them
C19_Witness ==
    /\ ThreadReturned
    /\ fmtr.req.text = BODY_MIXED_SENTENCES
    /\ ThreadBullets = << >>
    /\ Len(SentenceSplit(ThreadText)) = 9
    /\ Len(LongSentences) = 6
    /\ Join(ContentMessages, NLNL) = FirstUnits(LongSentences, 5)

(***************************************************************************)
(* The Telegram composer under test: a caller holds a title, a body and    *)
(* hashtags and asks format_telegram_improved for the message.             *)
(***************************************************************************)

\* how far the bodies of one line reach around the Telegram limit
MaxTgSpread == 10

\* k lines of n letters "x"
PlainLines(k, n) == Join([i \in 1..k |-> Rep(<<120>>, n)], <<10>>)

\* bodies of one line that bring the message to just below and just above
\* MAX_TELEGRAM_LENGTH, bodies of more than MAX_LINE_COUNT lines, a body
\* longer than MAX_TEXT_LENGTH, and the short and empty ones
TgBodies ==
    {PlainLines(1, MAX_TELEGRAM_LENGTH - 30 + d) : d \in 0..MaxTgSpread}
        \cup {PlainLines(MAX_LINE_COUNT + 20, n) : n \in {30, 40}}
        \cup {PlainLines(1, MAX_TEXT_LENGTH + 100), Rep(<<128640, 97>>, 2100)}
        \cup {Bullets(MaxBullets, 120), BODY_SCENARIO_A, BODY_SHORT, BODY_BLANK, << >>, None}

TgRequests ==
    { [title |-> t, text |-> b, hashtags |-> h] :
        t \in {TITLE_MARKET, TITLE_WIDE, None}, b \in TgBodies, h \in {<< >>, TAGS_TWO, None} }

NoMessage == [called |-> FALSE, message |-> << >>]

TgInit ==
    /\ fmtr \in { [pc |-> "telegram", req |-> r, tg |-> NoMessage] : r \in TgRequests }
    /\ calc = CalcIdle
    /\ trunc = TruncIdle
    /\ pub = PubIdle
    /\ lock = LockIdle

\* the caller asks for the Telegram message
FormatTelegramImproved ==
    /\ ~fmtr.tg.called
    /\ fmtr' = [fmtr EXCEPT !.tg =
                   [called |-> TRUE,
                    message |-> format_telegram_improved(fmtr.req.title, fmtr.req.text,
                                                         fmtr.req.hashtags)]]
    /\ UNCHANGED <<calc, trunc, pub, lock>>

TgNext == FormatTelegramImproved

SpecTg == TgInit /\ [][TgNext]_vars

\* the message format_telegram_improved has assembled for the request
\* before its length check
Assembled ==
    IF safe_str(fmtr.req.text, << >>, MAX_TEXT_LENGTH) = << >>
    THEN B_OPEN \o safe_str(fmtr.req.title, CRYPTO_UPDATE, 100) \o B_CLOSE \o NLNL
             \o safe_str(fmtr.req.hashtags, << >>, 200)
    ELSE TelegramMessage(safe_str(fmtr.req.title, CRYPTO_UPDATE, 100),
                         safe_str(fmtr.req.text, << >>, MAX_TEXT_LENGTH),
                         safe_str(fmtr.req.hashtags, << >>, 200))

\* C18: format_telegram_improved returns at most 4000 code points: the
\* first 3997 code points of the assembled message and "..." when the
\* assembled message is longer than 4000, the assembled message otherwise.
C18_TelegramWithinLimit ==
    fmtr.tg.called =>
        /\ Len(fmtr.tg.message) <= MAX_TELEGRAM_LENGTH
        /\ fmtr.tg.message =
              IF Len(Assembled) > MAX_TELEGRAM_LENGTH
              THEN SubSeq(Assembled, 1, MAX_TELEGRAM_LENGTH - 3) \o DOTS
              ELSE Assembled

\* an assembled message of 4001 code points was cut to 4000
C18_Witness ==
    /\ fmtr.tg.called
    /\ Len(Assembled) = MAX_TELEGRAM_LENGTH + 1
    /\ Len(fmtr.tg.message) = MAX_TELEGRAM_LENGTH
    /\ EndsWith(fmtr.tg.message, DOTS)

(***************************************************************************)
(* parser.acquire_lock / release_lock / main: parser processes started     *)
(* side by side over one lock file.  The file system is the name           *)
(* lock_path, bound to a file or to none, and the files themselves: a      *)
(* file has a content and at most one flock owner, and lives on under the  *)
(* handles that are open on it after its name is removed.  One action is   *)
(* one system call (or one run of calls on the process's own handle).      *)
(***************************************************************************)

\* how many parser processes are started
MaxProcs == 2

Procs == 1..MaxProcs

\* lock_path names no file; a file nobody has flocked
NoFile == 0
Unlocked == 0

\* what a lock file holds: nothing, text that is no integer, or a pid on
\* its first line.  The pid of a process that is gone is none of Procs
EmptyContent == [kind |-> "empty", pid |-> 0]
CorruptContent == [kind |-> "corrupt", pid |-> 0]
PidContent(pid) == [kind |-> "pid", pid |-> pid]
StaleContent == PidContent(MaxProcs + 1)

File(content) == [content |-> content, flock |-> Unlocked]

\* a process before acquire_lock
NewProc == [pc |-> "exists", handle |-> NoFile, read |-> EmptyContent]

\* the machines the parser is started on: with or without fcntl, with no
\* lock file or the lock file of a process that is gone (its pid, garbage,
\* or nothing in it)
LockInit ==
    /\ lock \in { [pc |-> "run", has_fcntl |-> h, path |-> Len(files), files |-> files,
                   procs |-> [p \in Procs |-> NewProc]] :
                  h \in BOOLEAN,
                  files \in {<< >>, <<File(StaleContent)>>, <<File(CorruptContent)>>,
                             <<File(EmptyContent)>>} }
    /\ calc = CalcIdle
    /\ trunc = TruncIdle
    /\ fmtr = FmtrIdle
    /\ pub = PubIdle

\* the process p moved to pc, the rest of its record as given
Moved(p, pc, handle, read) ==
    [lock.procs EXCEPT ![p] = [pc |-> pc, handle |-> handle, read |-> read]]

At(p, pc) == lock.pc = "run" /\ lock.procs[p].pc = pc

\* is_process_running(pid): os.kill(pid, 0) succeeds for a process that has
\* not exited
is_process_running(pid) == pid \in Procs /\ lock.procs[pid].pc # "exited"

\* `if os.path.exists(lock_path):`
LockExists(p) ==
    /\ At(p, "exists")
    /\ lock' = [lock EXCEPT !.procs =
                   Moved(p, IF lock.path # NoFile THEN "read" ELSE "open", NoFile, EmptyContent)]
    /\ UNCHANGED <<calc, trunc, fmtr, pub>>

\* `with open(lock_path, 'r') as f: content = f.read().strip()` and the
\* parse of its first line: a file that is gone by now raises into the
\* outer except, whose os.remove fails and is passed over; no content goes
\* straight on to the creation
ReadLock(p) ==
    /\ At(p, "read")
    /\ lock' = [lock EXCEPT !.procs =
                   IF lock.path = NoFile THEN Moved(p, "open", NoFile, EmptyContent)
                   ELSE IF lock.files[lock.path].content.kind = "empty"
                        THEN Moved(p, "open", NoFile, EmptyContent)
                   ELSE IF lock.files[lock.path].content.kind = "corrupt"
                        THEN Moved(p, "remove", NoFile, CorruptContent)
                   ELSE Moved(p, "check", NoFile, lock.files[lock.path].content)]
    /\ UNCHANGED <<calc, trunc, fmtr, pub>>

\* `if is_process_running(old_pid): return None, None`, else the lock is
\* stale
CheckOwner(p) ==
    /\ At(p, "check")
    /\ lock' = [lock EXCEPT !.procs =
                   IF is_process_running(lock.procs[p].read.pid)
                   THEN Moved(p, "refused", NoFile, lock.procs[p].read)
                   ELSE Moved(p, "remove", NoFile, lock.procs[p].read)]
    /\ UNCHANGED <<calc, trunc, fmtr, pub>>

\* `os.remove(lock_path)` of a stale or corrupt lock: the name is unbound,
\* whatever file it names now; when there is no file the error is caught by
\* the outer except
RemoveStale(p) ==
    /\ At(p, "remove")
    /\ lock' = [lock EXCEPT !.path = NoFile,
                            !.procs = Moved(p, "open", NoFile, lock.procs[p].read)]
    /\ UNCHANGED <<calc, trunc, fmtr, pub>>

\* `lock_file = open(lock_path, 'w')`: the file named by lock_path is
\* emptied, or a new file is created under the name when there is none
OpenLock(p) ==
    /\ At(p, "open")
    /\ lock' = IF lock.path = NoFile
               THEN [lock EXCEPT !.files = Append(lock.files, File(EmptyContent)),
                                 !.path = Len(lock.files) + 1,
                                 !.procs = Moved(p, IF lock.has_fcntl THEN "flock" ELSE "write",
                                                 Len(lock.files) + 1, lock.procs[p].read)]
               ELSE [lock EXCEPT !.files[lock.path].content = EmptyContent,
                                 !.procs = Moved(p, IF lock.has_fcntl THEN "flock" ELSE "write",
                                                 lock.path, lock.procs[p].read)]
    /\ UNCHANGED <<calc, trunc, fmtr, pub>>

\* `fcntl.flock(lock_file, fcntl.LOCK_EX | fcntl.LOCK_NB)`: granted when no
\* other handle holds the lock of the file; otherwise IOError, the handle
\* is closed and (None, None) returned
FlockLock(p) ==
    /\ At(p, "flock")
    /\ lock' = IF lock.files[lock.procs[p].handle].flock = Unlocked
               THEN [lock EXCEPT !.files[lock.procs[p].handle].flock = p,
                                 !.procs = Moved(p, "write", lock.procs[p].handle,
                                                 lock.procs[p].read)]
               ELSE [lock EXCEPT !.procs = Moved(p, "refused", NoFile, lock.procs[p].read)]
    /\ UNCHANGED <<calc, trunc, fmtr, pub>>

\* `lock_file.write(f"{os.getpid()}\n..."); lock_file.flush()` and
\* `return lock_file, lock_path`: the process holds the lock
WritePid(p) ==
    /\ At(p, "write")
    /\ lock' = [lock EXCEPT !.files[lock.procs[p].handle].content = PidContent(p),
                            !.procs = Moved(p, "held", lock.procs[p].handle, lock.procs[p].read)]
    /\ UNCHANGED <<calc, trunc, fmtr, pub>>

\* main after acquire_lock returned (None, None): sys.exit(2), which is no
\* Exception and so runs no release_lock
ExitRefused(p) ==
    /\ At(p, "refused")
    /\ lock' = [lock EXCEPT !.procs = Moved(p, "exited", NoFile, lock.procs[p].read)]
    /\ UNCHANGED <<calc, trunc, fmtr, pub>>

\* release_lock, first half: the flock is given up and the handle closed
ReleaseLockClose(p) ==
    /\ At(p, "held")
    /\ lock' = [lock EXCEPT !.files[lock.procs[p].handle].flock =
                                IF @ = p THEN Unlocked ELSE @,
                            !.procs = Moved(p, "unlink", NoFile, lock.procs[p].read)]
    /\ UNCHANGED <<calc, trunc, fmtr, pub>>

\* release_lock, second half: `if lock_path and os.path.exists(lock_path):
\* os.remove(lock_path)`, then main exits
ReleaseLockRemove(p) ==
    /\ At(p, "unlink")
    /\ lock' = [lock EXCEPT !.path = NoFile,
                            !.procs = Moved(p, "exited", NoFile, lock.procs[p].read)]
    /\ UNCHANGED <<calc, trunc, fmtr, pub>>

LockNext ==
    \E p \in Procs :
        \/ LockExists(p)
        \/ ReadLock(p)
        \/ CheckOwner(p)
        \/ RemoveStale(p)
        \/ OpenLock(p)
        \/ FlockLock(p)
        \/ WritePid(p)
        \/ ExitRefused(p)
        \/ ReleaseLockClose(p)
        \/ ReleaseLockRemove(p)

SpecLock == LockInit /\ [][LockNext]_vars

\* the processes that hold a lock handle: acquire_lock has returned it and
\* release_lock has not been called
Holders == {p \in Procs : lock.procs[p].pc = "held"}

\* C20: whatever the interleaving of the processes that call acquire_lock,
\* and whatever lock file a dead process has left, at most one process
\* holds a lock handle at any time.
C20_AtMostOneHolder == Cardinality(Holders) <= 1

\* the calls of client.create_tweet that created a tweet
Created == {k \in 1..Len(pub.calls) : pub.calls[k].outcome = "ok"}

\* C21: send_twitter_thread returns True only if this call created at least
\* one tweet of the content, in thread mode and in single mode alike.
C21_TrueOnlyIfCreated == pub.result = "True" => Created # {}

(***************************************************************************)
(* parser.main_parser: one run of the parser.  The page gives the list of  *)
(* questions, publication_history.json the history; the run chooses the    *)
(* question of the hour, fetches its answer, sends it and writes the       *)
(* history back.  A timestamp is an ISO string of a UTC instant, written   *)
(* by isoformat() and compared after fromisoformat(); it is modelled by    *)
(* the instant, a positive integer, and 0 stands for a key that is absent. *)
(***************************************************************************)

\* the keywords of get_question_group
\* "why is the market"
KW_WHY_MARKET ==
    <<119, 104, 121, 32, 105, 115, 32, 116, 104, 101, 32, 109, 97, 114, 107, 101,
      116>>
\* "up"
KW_UP ==
    <<117, 112>>
\* "down"
KW_DOWN ==
    <<100, 111, 119, 110>>
\* "kol"
KW_KOL ==
    <<107, 111, 108>>
\* "sentiment"
KW_SENTIMENT ==
    <<115, 101, 110, 116, 105, 109, 101, 110, 116>>
\* "upcoming events"
KW_UPCOMING_EVENTS ==
    <<117, 112, 99, 111, 109, 105, 110, 103, 32, 101, 118, 101, 110, 116, 115>>
\* "events"
KW_EVENTS ==
    <<101, 118, 101, 110, 116, 115>>
\* "impact"
KW_IMPACT ==
    <<105, 109, 112, 97, 99, 116>>
\* "bullish"
KW_BULLISH ==
    <<98, 117, 108, 108, 105, 115, 104>>
\* "momentum"
KW_MOMENTUM ==
    <<109, 111, 109, 101, 110, 116, 117, 109>>
\* "trending narratives"
KW_TRENDING_NARRATIVES ==
    <<116, 114, 101, 110, 100, 105, 110, 103, 32, 110, 97, 114, 114, 97, 116, 105,
      118, 101, 115>>
\* "narratives"
KW_NARRATIVES ==
    <<110, 97, 114, 114, 97, 116, 105, 118, 101, 115>>
\* "altcoins"
KW_ALTCOINS ==
    <<97, 108, 116, 99, 111, 105, 110, 115>>
\* "bitcoin"
KW_BITCOIN ==
    <<98, 105, 116, 99, 111, 105, 110>>

\* get_question_group after `question_lower = question_text.lower()`
GroupOfLower(question_lower) ==
    IF Contains(question_lower, KW_WHY_MARKET)
       /\ (Contains(question_lower, KW_UP) \/ Contains(question_lower, KW_DOWN))
    THEN "market_direction"
    ELSE IF Contains(question_lower, KW_KOL) THEN "kols"
    ELSE IF Contains(question_lower, KW_SENTIMENT) THEN "sentiment"
    ELSE IF Contains(question_lower, KW_UPCOMING_EVENTS)
            \/ (Contains(question_lower, KW_EVENTS) /\ Contains(question_lower, KW_IMPACT))
         THEN "events"
    ELSE IF Contains(question_lower, KW_BULLISH) /\ Contains(question_lower, KW_MOMENTUM)
         THEN "bullish"
    ELSE IF Contains(question_lower, KW_TRENDING_NARRATIVES)
            \/ Contains(question_lower, KW_NARRATIVES)
         THEN "narratives"
    ELSE IF Contains(question_lower, KW_ALTCOINS) /\ Contains(question_lower, KW_BITCOIN)
         THEN "altcoins"
    ELSE "dynamic"

\* parser.get_question_group(question_text)
get_question_group(question_text) ==
    IF Falsy(question_text) THEN "dynamic" ELSE GroupOfLower(Lower(question_text))

\* parser.SCHEDULE: the group of each hour UTC, "" for None
SCHEDULE ==
    [h \in 0..23 |->
        CASE h \in {6, 18} -> "sentiment"
          [] h \in {8, 14, 22} -> "market_direction"
          [] h \in {9, 21} -> "DYNAMIC"
          [] h = 13 -> "kols"
          [] h \in {16, 23} -> "narratives"
          [] h = 19 -> "events"
          [] OTHER -> ""]

\* all_groups of get_oldest_question_group, and the keys of last_published
ALL_GROUPS ==
    <<"kols", "sentiment", "market_direction", "events", "bullish", "narratives", "altcoins">>
HistoryKeys == {ALL_GROUPS[k] : k \in 1..Len(ALL_GROUPS)} \cup {"dynamic"}

\* the comparison of the loop when it looks for the latest time
IsLater(pub_time, oldest_time) == pub_time > oldest_time

\* `pub_time < oldest_time`
IsEarlier(pub_time, oldest_time) == pub_time < oldest_time

\* the loop of get_oldest_question_group from all_groups[k] on; oldest_group
\* is "" for None
RECURSIVE OldestLoop(_, _, _, _)
OldestLoop(last_published, k, oldest_group, oldest_time) ==
    IF k > Len(ALL_GROUPS) THEN (IF oldest_group # "" THEN oldest_group ELSE "kols")
    ELSE IF last_published[ALL_GROUPS[k]] = 0 THEN ALL_GROUPS[k]
    ELSE IF oldest_group = "" \/ IsEarlier(last_published[ALL_GROUPS[k]], oldest_time)
         THEN OldestLoop(last_published, k + 1, ALL_GROUPS[k], last_published[ALL_GROUPS[k]])
    ELSE OldestLoop(last_published, k + 1, oldest_group, oldest_time)

\* parser.get_oldest_question_group(history)
get_oldest_question_group(history) ==
    IF \A g \in HistoryKeys : history.last_published[g] = 0 THEN "kols"
    ELSE OldestLoop(history.last_published, 1, "", 0)

\* parser.find_question_by_group(questions_list, group_name): the first
\* question of the group, None when there is none
find_question_by_group(questions_list, group_name) ==
    IF \E k \in 1..Len(questions_list) : get_question_group(questions_list[k]) = group_name
    THEN SelectSeq(questions_list, LAMBDA x : get_question_group(x) = group_name)[1]
    ELSE None

\* what the choice of the question comes to: the question, the group it is
\* published under and the value of history["last_dynamic_question"], or
\* an exception raised
Chosen(question, group, last_dynamic) ==
    [failed |-> FALSE, question |-> question, group |-> group, last_dynamic |-> last_dynamic]
Raised(last_dynamic) ==
    [failed |-> TRUE, question |-> None, group |-> "", last_dynamic |-> last_dynamic]

\* the dynamic question has not changed: the question of the oldest group,
\* or the dynamic question again when the page has none of that group
OldestOrDynamic(questions_list, oldest_group, dynamic_question, last_dynamic) ==
    IF find_question_by_group(questions_list, oldest_group) # None
    THEN Chosen(find_question_by_group(questions_list, oldest_group), oldest_group, last_dynamic)
    ELSE Chosen(dynamic_question, "DYNAMIC", last_dynamic)

\* the page has no dynamic question: the question of the oldest group, or
\* an exception when the page has none of that group
OldestOrRaise(questions_list, oldest_group, last_dynamic) ==
    IF find_question_by_group(questions_list, oldest_group) # None
    THEN Chosen(find_question_by_group(questions_list, oldest_group), oldest_group, last_dynamic)
    ELSE Raised(last_dynamic)

\* `if scheduled_group == "DYNAMIC":`, dynamic_question being the first
\* question of the page whose group is "dynamic"
DynamicSlot(questions_list, history, dynamic_question) ==
    IF dynamic_question # None
    THEN IF dynamic_question # history.last_dynamic_question
         THEN Chosen(dynamic_question, "DYNAMIC", dynamic_question)
         ELSE OldestOrDynamic(questions_list, get_oldest_question_group(history),
                              dynamic_question, history.last_dynamic_question)
    ELSE OldestOrRaise(questions_list, get_oldest_question_group(history),
                       history.last_dynamic_question)

\* the groups tried when the page has no question of the scheduled group
FALLBACK_GROUPS == <<"kols", "sentiment", "events", "bullish", "narratives", "altcoins">>

\* the fallback from FALLBACK_GROUPS[k] on, and then the first question of
\* the page
RECURSIVE FallbackLoop(_, _, _)
FallbackLoop(questions_list, k, last_dynamic) ==
    IF k > Len(FALLBACK_GROUPS)
    THEN Chosen(questions_list[1], get_question_group(questions_list[1]), last_dynamic)
    ELSE IF find_question_by_group(questions_list, FALLBACK_GROUPS[k]) # None
         THEN Chosen(find_question_by_group(questions_list, FALLBACK_GROUPS[k]),
                     FALLBACK_GROUPS[k], last_dynamic)
    ELSE FallbackLoop(questions_list, k + 1, last_dynamic)

\* a slot of a standard group
StandardSlot(questions_list, scheduled_group, last_dynamic) ==
    IF find_question_by_group(questions_list, scheduled_group) # None
    THEN Chosen(find_question_by_group(questions_list, scheduled_group), scheduled_group,
                last_dynamic)
    ELSE FallbackLoop(questions_list, 1, last_dynamic)

\* main_parser from the list of questions to the question to publish
ChooseOf(questions_list, history, current_hour) ==
    IF questions_list = << >> THEN Raised(history.last_dynamic_question)
    ELSE IF SCHEDULE[current_hour] = "" THEN Raised(history.last_dynamic_question)
    ELSE IF SCHEDULE[current_hour] = "DYNAMIC"
         THEN DynamicSlot(questions_list, history,
                          find_question_by_group(questions_list, "dynamic"))
    ELSE StandardSlot(questions_list, SCHEDULE[current_hour], history.last_dynamic_question)

\* MAX_RETRIES, and the latest instant a history holds before the run
MAX_RETRIES == 2
MaxStamp == 2

\* the questions of the page
\* "Why is the market up today?"
Q_MARKET_UP ==
    <<87, 104, 121, 32, 105, 115, 32, 116, 104, 101, 32, 109, 97, 114, 107, 101,
      116, 32, 117, 112, 32, 116, 111, 100, 97, 121, 63>>

\* "What are KOLs discussing?"
Q_KOLS ==
    <<87, 104, 97, 116, 32, 97, 114, 101, 32, 75, 79, 76, 115, 32, 100, 105, 115,
      99, 117, 115, 115, 105, 110, 103, 63>>

\* "What is the market sentiment?"
Q_SENTIMENT ==
    <<87, 104, 97, 116, 32, 105, 115, 32, 116, 104, 101, 32, 109, 97, 114, 107, 101,
      116, 32, 115, 101, 110, 116, 105, 109, 101, 110, 116, 63>>

\* "What upcoming events may impact crypto?"
Q_EVENTS ==
    <<87, 104, 97, 116, 32, 117, 112, 99, 111, 109, 105, 110, 103, 32, 101, 118,
      101, 110, 116, 115, 32, 109, 97, 121, 32, 105, 109, 112, 97, 99, 116, 32, 99,
      114, 121, 112, 116, 111, 63>>

\* "What cryptos are showing bullish momentum?"
Q_BULLISH ==
    <<87, 104, 97, 116, 32, 99, 114, 121, 112, 116, 111, 115, 32, 97, 114, 101, 32,
      115, 104, 111, 119, 105, 110, 103, 32, 98, 117, 108, 108, 105, 115, 104, 32,
      109, 111, 109, 101, 110, 116, 117, 109, 63>>

\* "What are the trending narratives?"
Q_NARRATIVES ==
    <<87, 104, 97, 116, 32, 97, 114, 101, 32, 116, 104, 101, 32, 116, 114, 101, 110,
      100, 105, 110, 103, 32, 110, 97, 114, 114, 97, 116, 105, 118, 101, 115, 63>>

\* "Are altcoins outperforming Bitcoin?"
Q_ALTCOINS ==
    <<65, 114, 101, 32, 97, 108, 116, 99, 111, 105, 110, 115, 32, 111, 117, 116,
      112, 101, 114, 102, 111, 114, 109, 105, 110, 103, 32, 66, 105, 116, 99, 111,
      105, 110, 63>>

\* "Why did Solana rally this week?"
Q_DYNAMIC_A ==
    <<87, 104, 121, 32, 100, 105, 100, 32, 83, 111, 108, 97, 110, 97, 32, 114, 97,
      108, 108, 121, 32, 116, 104, 105, 115, 32, 119, 101, 101, 107, 63>>

\* "Is Ethereum losing ground?"
Q_DYNAMIC_B ==
    <<73, 115, 32, 69, 116, 104, 101, 114, 101, 117, 109, 32, 108, 111, 115, 105,
      110, 103, 32, 103, 114, 111, 117, 110, 100, 63>>

\* the lists of questions a page gives: all of them, no dynamic question,
\* a few groups with and without a dynamic question, two dynamic questions,
\* a dynamic question alone, none
Pages ==
    { <<Q_DYNAMIC_A, Q_MARKET_UP, Q_KOLS, Q_SENTIMENT, Q_EVENTS, Q_BULLISH, Q_NARRATIVES,
        Q_ALTCOINS>>,
      <<Q_MARKET_UP, Q_KOLS, Q_SENTIMENT, Q_EVENTS, Q_BULLISH, Q_NARRATIVES, Q_ALTCOINS>>,
      <<Q_SENTIMENT, Q_DYNAMIC_A, Q_NARRATIVES>>,
      <<Q_MARKET_UP, Q_EVENTS>>,
      <<Q_DYNAMIC_B, Q_DYNAMIC_A, Q_KOLS>>,
      <<Q_DYNAMIC_A>>,
      << >> }

\* the hours the parser is started at: one without schedule, a dynamic
\* slot and the slot of a standard group
Hours == {0, 9, 13}

\* the histories on disk: the groups of published have been published, the
\* group oldest first of them (no group when oldest is ""), and the last
\* dynamic question is last_dynamic ("" when there was none).  The
\* histories taken lack at most two keys, or all of them, or all but
\* "dynamic"
HistoryOf(published, oldest, last_dynamic) ==
    [last_published |->
        [g \in HistoryKeys |-> IF g \notin published THEN 0
                               ELSE IF g = oldest THEN 1 ELSE MaxStamp],
     last_dynamic_question |-> last_dynamic]

Histories ==
    { HistoryOf(published, oldest, last_dynamic) :
        published \in {HistoryKeys \ missing :
                          missing \in {m \in SUBSET HistoryKeys : Cardinality(m) <= 2}}
                      \cup {{}, {"dynamic"}},
        oldest \in HistoryKeys \cup {""},
        last_dynamic \in {<< >>, Q_DYNAMIC_A} }

ParserInit ==
    /\ pub \in { [pc |-> "start", questions_list |-> page, current_hour |-> hour,
                  before |-> disk, disk |-> disk, history |-> disk,
                  question |-> None, group |-> "", retry |-> 0, fetched |-> FALSE,
                  send_success |-> FALSE, result |-> "none"] :
                 page \in Pages, hour \in Hours, disk \in Histories }
    /\ calc = CalcIdle
    /\ trunc = TruncIdle
    /\ fmtr = FmtrIdle
    /\ lock = LockIdle

\* the run after the choice: an exception ends it with False
AfterChoice(choice) ==
    IF choice.failed
    THEN [pub EXCEPT !.pc = "returned", !.result = "False",
                     !.history.last_dynamic_question = choice.last_dynamic]
    ELSE [pub EXCEPT !.pc = "fetch", !.question = choice.question, !.group = choice.group,
                     !.history.last_dynamic_question = choice.last_dynamic]

\* main_parser from the list of questions to the question to publish: the
\* history is loaded and the question of the hour chosen
ChooseQuestion ==
    /\ pub.pc = "start"
    /\ pub' = AfterChoice(ChooseOf(pub.questions_list, pub.disk, pub.current_hour))
    /\ UNCHANGED <<calc, trunc, fmtr, lock>>

\* one turn of the retry loop: click_and_get_response gives the answer or
\* nothing; after MAX_RETRIES + 1 turns without answer an exception ends the
\* run with False
ClickAndGetResponse ==
    /\ pub.pc = "fetch"
    /\ \E answered \in BOOLEAN :
          pub' = IF answered THEN [pub EXCEPT !.pc = "send", !.fetched = TRUE]
                 ELSE IF pub.retry < MAX_RETRIES THEN [pub EXCEPT !.retry = @ + 1]
                 ELSE [pub EXCEPT !.pc = "returned", !.result = "False"]
    /\ UNCHANGED <<calc, trunc, fmtr, lock>>

\* `send_success = send_question_answer_to_telegram(...)`: a failure is
\* logged and the run goes on
SendQuestionAnswer ==
    /\ pub.pc = "send"
    /\ \E send_success \in BOOLEAN :
          pub' = [pub EXCEPT !.pc = "save", !.send_success = send_success]
    /\ UNCHANGED <<calc, trunc, fmtr, lock>>

\* the history with the publication of the group written into it, at an
\* instant later than every instant it holds
Published(history, group) ==
    [history EXCEPT !.last_published[IF group = "DYNAMIC" THEN "dynamic" ELSE group] =
                        MaxStamp + 1]

\* the history is updated and save_publication_history writes it, or
\* fails to open the file and leaves it as it was; the run returns True
UpdateHistory ==
    /\ pub.pc = "save"
    /\ \E saved \in BOOLEAN :
          pub' = [pub EXCEPT !.pc = "returned", !.result = "True",
                             !.history = Published(pub.history, pub.group),
                             !.disk = IF saved THEN Published(pub.history, pub.group)
                                      ELSE pub.disk]
    /\ UNCHANGED <<calc, trunc, fmtr, lock>>

ParserNext ==
    \/ ChooseQuestion
    \/ ClickAndGetResponse
    \/ SendQuestionAnswer
    \/ UpdateHistory

SpecParser == ParserInit /\ [][ParserNext]_vars

\* the run is in a dynamic slot, the page has questions and the choice of
\* the question has just been made: the first fetch is next, or the run
\* has ended without a question
DynamicSlotChosen ==
    /\ \/ pub.pc = "fetch" /\ pub.retry = 0
       \/ pub.pc = "returned" /\ pub.question = None
    /\ SCHEDULE[pub.current_hour] = "DYNAMIC"
    /\ pub.questions_list # << >>

\* the dynamic question of the page (None when it has none), and whether it
\* is present and differs from the one of the history on disk
PageDynamic == find_question_by_group(pub.questions_list, "dynamic")
DynamicIsNew == PageDynamic # None /\ PageDynamic # pub.before.last_dynamic_question

\* the standard groups never published, and the groups a fallback may take:
\* the never-published ones when there are any, else those with the
\* earliest timestamp
StandardGroups == {ALL_GROUPS[k] : k \in 1..Len(ALL_GROUPS)}
NeverPublished == {g \in StandardGroups : pub.before.last_published[g] = 0}
IsOldest(g) ==
    IF NeverPublished # {} THEN g \in NeverPublished
    ELSE \A h \in StandardGroups :
            pub.before.last_published[g] <= pub.before.last_published[h]

\* the first of those groups in the order of all_groups
OldestGroup ==
    ALL_GROUPS[CHOOSE k \in 1..Len(ALL_GROUPS) :
                  IsOldest(ALL_GROUPS[k]) /\ \A j \in 1..(k - 1) : ~IsOldest(ALL_GROUPS[j])]

\* the questions of the page that belong to the group
OnPage(group) ==
    {pub.questions_list[k] : k \in {j \in 1..Len(pub.questions_list) :
                                      get_question_group(pub.questions_list[j]) = group}}

\* C22 as stated: in a dynamic slot the dynamic question is published if and
\* only if it is present and differs from history["last_dynamic_question"];
\* otherwise a question of a never-published group, or else of the group
\* published the longest ago, is published.
C22_DynamicIffNew ==
    DynamicSlotChosen =>
        IF DynamicIsNew THEN pub.question = PageDynamic
        ELSE /\ pub.question # None
             /\ pub.question # PageDynamic
             /\ IsOldest(get_question_group(pub.question))

\* C22: in a dynamic slot the dynamic question is published when it is
\* present and differs from history["last_dynamic_question"]; otherwise the
\* first question of the page in the group of get_oldest_question_group (the
\* first never-published standard group, else the first with the earliest
\* timestamp); when the page has no question of that group, the unchanged
\* dynamic question is published again, and without a dynamic question the
\* run fails and publishes nothing.
C22_DynamicSlot ==
    DynamicSlotChosen =>
        IF DynamicIsNew
        THEN pub.question = PageDynamic /\ pub.history.last_dynamic_question = PageDynamic
        ELSE IF OnPage(OldestGroup) # {}
             THEN /\ pub.question = find_question_by_group(pub.questions_list, OldestGroup)
                  /\ pub.question \in OnPage(OldestGroup)
                  /\ pub.group = OldestGroup
        ELSE IF PageDynamic # None
             THEN pub.question = PageDynamic /\ pub.group = "DYNAMIC"
        ELSE pub.question = None /\ pub.result = "False"

\* every standard group has been published, at different times, the
\* dynamic question is the one of the history, and the question of the
\* group published the longest ago was chosen
C22_Witness ==
    /\ DynamicSlotChosen
    /\ PageDynamic = pub.before.last_dynamic_question
    /\ NeverPublished = {}
    /\ OldestGroup = "narratives"
    /\ pub.question = Q_NARRATIVES
    /\ pub.pc = "fetch"

\* C26: a run of main_parser whose fetch of the answer fails, or whose send
\* step reports failure, leaves history["last_published"] on disk as it
\* was before the run.
C26_HistoryOnlyOnSuccess ==
    (pub.pc = "returned" /\ (~pub.fetched \/ ~pub.send_success)) =>
        pub.disk.last_published = pub.before.last_published

(***************************************************************************)
(* utils.sanitize_hashtags under test: a caller holds a string of hashtags *)
(* and the two limits and asks for the filtered hashtags.                  *)
(***************************************************************************)

\* a tag is kept whatever its length
KeepTagAlways(tag, max_length) == TRUE

\* `tag_length = len(tag) - 1; if tag_length <= max_length:`
KeepTag(tag, max_length) == Len(tag) - 1 <= max_length

\* `[tag.strip() for tag in hashtags.split() if tag.startswith('#')]`; a
\* piece of split() has no whitespace for strip() to take away
TagsOf(hashtags) == SelectSeq(SplitWs(hashtags), LAMBDA tag : StartsWith(tag, <<35>>))

\* the tags that pass the length filter, in their order
ValidTags(tags, max_length) == SelectSeq(tags, LAMBDA tag : KeepTag(tag, max_length))

\* utils.sanitize_hashtags(hashtags, max_count, max_length)
sanitize_hashtags(hashtags, max_count, max_length) ==
    IF Falsy(hashtags) THEN << >>
    ELSE Join(SliceTo(ValidTags(TagsOf(hashtags), max_length), max_count), SP)

\* how many tokens a string of hashtags has, and the largest max_count
MaxTags == 3

\* "#BTC", "#Bitcoin", "#MarketSentiment", "ETH", "#", "#a#b"
TagTokens ==
    { <<35, 66, 84, 67>>, <<35, 66, 105, 116, 99, 111, 105, 110>>,
      <<35, 77, 97, 114, 107, 101, 116, 83, 101, 110, 116, 105, 109, 101, 110, 116>>,
      <<69, 84, 72>>, <<35>>, <<35, 97, 35, 98>> }

\* the sequences of up to n tokens
RECURSIVE TokenLists(_)
TokenLists(n) ==
    IF n = 0 THEN { << >> }
    ELSE TokenLists(n - 1)
             \cup {Append(l, t) : l \in {u \in TokenLists(n - 1) : Len(u) = n - 1},
                                  t \in TagTokens}

\* the strings of hashtags: up to MaxTags tokens with one space between
\* them, a string with other whitespace around its tags ("  #BTC \n#ETH  "),
\* and None
TagStrings ==
    {Join(l, SP) : l \in TokenLists(MaxTags)}
        \cup {<<32, 32, 35, 66, 84, 67, 32, 10, 35, 69, 84, 72, 32, 32>>, None}

TagsInit ==
    /\ trunc \in { [pc |-> "tags", hashtags |-> h, max_count |-> c, max_length |-> l,
                    called |-> FALSE, result |-> << >>] :
                   h \in TagStrings, c \in 0..MaxTags, l \in {0, 3, 7, 10, 15} }
    /\ calc = CalcIdle
    /\ fmtr = FmtrIdle
    /\ pub = PubIdle
    /\ lock = LockIdle

\* the caller asks for the filtered hashtags
SanitizeHashtags ==
    /\ trunc.pc = "tags"
    /\ ~trunc.called
    /\ trunc' = [trunc EXCEPT !.called = TRUE,
                              !.result = sanitize_hashtags(trunc.hashtags, trunc.max_count,
                                                           trunc.max_length)]
    /\ UNCHANGED <<calc, fmtr, pub, lock>>

TagsNext == SanitizeHashtags

SpecTags == TagsInit /\ [][TagsNext]_vars

\* the tokens of the input, and the positions of those that are hashtags
\* of at most max_length code points after the '#'
InputTokens == IF trunc.hashtags = None THEN << >> ELSE SplitWs(trunc.hashtags)
ValidAt ==
    {k \in 1..Len(InputTokens) :
        /\ Len(InputTokens[k]) >= 1
        /\ InputTokens[k][1] = 35
        /\ Len(InputTokens[k]) - 1 <= trunc.max_length}

\* the j-th valid position
NthValid(j) == CHOOSE k \in ValidAt : Cardinality({i \in ValidAt : i < k}) = j - 1

\* the hashtags of the result
ResultTags == IF trunc.result = << >> THEN << >> ELSE Split(trunc.result, 32)

C24_CopiesAgree ==
    /\ calc.len.formatting = calc.len.utils
    /\ calc.len.openai = calc.len.utils
    /\ calc.len.parser = calc.len.utils


(***************************************************************************)
(* The calls of the thread loop                                            *)
(***************************************************************************)

\* the outcomes after which the claim allows no further call: an error that
\* is not a duplicate, a rate limit, a response without identifier
Failed(call) == call.outcome \in {"error", "rate_limit", "no_id", "empty"}

\* the indices of the tweets that were created
PublishedIndices == {pub.calls[k].index : k \in {j \in 1..Len(pub.calls) : pub.calls[j].outcome = "ok"}}

\* C25: in thread mode send_twitter_thread submits each tweet of the thread
\* at most once and in index order, and after a call that failed with a
\* non-duplicate error, hit a rate limit or gave no identifier no further
\* tweet is submitted; the published tweets are tweets of the thread, each
\* created once.
C25_ThreadCallsOnceAndStop ==
    PublishingThread =>
        /\ \A j, k \in 1..Len(pub.calls) : j < k => pub.calls[j].index < pub.calls[k].index
        /\ \A j \in 1..Len(pub.calls) : Failed(pub.calls[j]) => j = Len(pub.calls)
        /\ \A j \in 1..Len(pub.calls) : pub.calls[j].index \in 1..Len(pub.content.tweets)
        /\ Cardinality(PublishedIndices) = pub.published_count
        /\ (\E j \in 1..Len(pub.calls) : Failed(pub.calls[j])) => pub.pc = "returned"

\* a thread of at least three tweets whose second tweet failed after the
\* first was created: the loop returned and the third was never submitted
C25_Witness ==
    /\ PublishingThread
    /\ Len(pub.content.tweets) >= 3
    /\ Len(pub.calls) = 2
    /\ pub.calls[1].outcome = "ok"
    /\ pub.calls[2].outcome = "error"
    /\ pub.pc = "returned"
    /\ pub.result = "True"


(***************************************************************************)
(* parser.send_telegram_message: a long message is sent in parts           *)
(***************************************************************************)

\* `max_length = 4000` of send_telegram_message
SPLIT_MAX_LENGTH == 4000

NL == <<10>>

\* [line[i:i + step] for i in range(0, len(line), step)]
Chunks(line, step) ==
    [j \in 1..((Len(line) + step - 1) \div step) |->
        SubSeq(line, (j - 1) * step + 1, Min(j * step, Len(line)))]

\* one turn of `for line in message.split('\n')`: what parts and
\* current_part are after it
SplitTurn(parts, current_part, line) ==
    IF Len(current_part) + Len(line) + 1 > SPLIT_MAX_LENGTH
    THEN IF current_part # << >>
         THEN [parts |-> Append(parts, current_part), current_part |-> line]
         ELSE [parts |-> parts \o Chunks(line, SPLIT_MAX_LENGTH - 100),
               current_part |-> current_part]
    ELSE [parts |-> parts,
          current_part |-> IF current_part # << >> THEN current_part \o NL \o line
                           ELSE line]

\* `if current_part: parts.append(current_part)` after the loop
Flushed(parts, current_part) ==
    IF current_part # << >> THEN Append(parts, current_part) ELSE parts

\* how many lines a message has
MaxSplitLines == 3

\* the lengths of the lines: empty, short, the two around the length that
\* still fits beside a short line, the limit itself and one beyond it
LineLengths == {0, 10, 3989, 3990, 4000, 4100}

\* line j of a message is made of the letter number j
SplitMessages ==
    UNION { { Join([j \in 1..n |-> Rep(<<96 + j>>, lens[j])], NL)
              : lens \in [1..n -> LineLengths] } : n \in 1..MaxSplitLines }

SplitInit ==
    /\ \E message \in SplitMessages :
          pub = [pc |-> "start", message |-> message, k |-> 1, current_part |-> << >>,
                 parts |-> << >>, i |-> 1, posted |-> 0, result |-> "none"]
    /\ calc = CalcIdle
    /\ trunc = TruncIdle
    /\ fmtr = FmtrIdle
    /\ lock = LockIdle

\* send_telegram_message up to the loop over the lines.  configured says
\* whether the token and the chat id are set; a message within max_length
\* is posted whole, and the status of the response decides the result
SendTelegramMessage ==
    /\ pub.pc = "start"
    /\ \E configured \in BOOLEAN, response \in {"200", "400", "raises"} :
          IF ~configured
          THEN pub' = [pub EXCEPT !.pc = "returned", !.result = "False"]
          ELSE IF Len(pub.message) <= SPLIT_MAX_LENGTH
               THEN pub' = [pub EXCEPT
                              !.pc = "returned",
                              !.parts = <<pub.message>>,
                              !.posted = IF response = "raises" THEN 0 ELSE 1,
                              !.result = IF response = "200" THEN "True" ELSE "False"]
               ELSE pub' = [pub EXCEPT !.pc = "split", !.k = 1, !.parts = << >>,
                                       !.current_part = << >>]
    /\ UNCHANGED <<calc, trunc, fmtr, lock>>

\* one turn of the loop over message.split('\n'); the turn of the last
\* line is followed by the append of what current_part holds
SplitLine ==
    /\ pub.pc = "split"
    /\ LET lines == Split(pub.message, 10)
           turn == SplitTurn(pub.parts, pub.current_part, lines[pub.k])
       IN  IF pub.k < Len(lines)
           THEN pub' = [pub EXCEPT !.k = @ + 1, !.parts = turn.parts,
                                   !.current_part = turn.current_part]
           ELSE pub' = [pub EXCEPT
                          !.k = @ + 1,
                          !.parts = Flushed(turn.parts, turn.current_part),
                          !.current_part = turn.current_part,
                          !.i = 1,
                          !.pc = IF Flushed(turn.parts, turn.current_part) = << >>
                                 THEN "returned" ELSE "post",
                          !.result = IF Flushed(turn.parts, turn.current_part) = << >>
                                     THEN "True" ELSE "none"]
    /\ UNCHANGED <<calc, trunc, fmtr, lock>>

\* one turn of `for i, part in enumerate(parts, 1)`: the part is posted and
\* the status of the response is not looked at; an exception of
\* requests.post ends the function with False
PostPart ==
    /\ pub.pc = "post"
    /\ \E response \in {"200", "400", "raises"} :
          IF response = "raises"
          THEN pub' = [pub EXCEPT !.pc = "returned", !.result = "False"]
          ELSE pub' = [pub EXCEPT
                         !.posted = pub.i,
                         !.i = @ + 1,
                         !.pc = IF pub.i = Len(pub.parts) THEN "returned" ELSE "post",
                         !.result = IF pub.i = Len(pub.parts) THEN "True" ELSE "none"]
    /\ UNCHANGED <<calc, trunc, fmtr, lock>>

SplitNext ==
    \/ SendTelegramMessage
    \/ SplitLine
    \/ PostPart

SpecSplit == SplitInit /\ [][SplitNext]_vars

\* a message longer than max_length went out in parts
SentInParts ==
    /\ pub.pc = "returned"
    /\ pub.result = "True"
    /\ Len(pub.message) > SPLIT_MAX_LENGTH

\* the code points of s other than the line breaks, in order
WithoutBreaks(s) == SelectSeq(s, LAMBDA c : c # 10)

\* the parts that were posted, in sending order
PostedParts == SubSeq(pub.parts, 1, pub.posted)

\* the text of the lines went out whole and in order
C27_LinesInOrder ==
    SentInParts => WithoutBreaks(Join(PostedParts, NL)) = WithoutBreaks(pub.message)

\* C27: when send_telegram_message splits a message longer than 4000
\* characters, every part it sends has at most 4000 characters, and the
\* parts, in sending order, carry the lines of the message in their
\* original order.
C27_PartsWithinLimit ==
    SentInParts =>
        /\ \A j \in 1..Len(PostedParts) : Len(PostedParts[j]) <= SPLIT_MAX_LENGTH
        /\ WithoutBreaks(Join(PostedParts, NL)) = WithoutBreaks(pub.message)


(***************************************************************************)
(* parser.main: one run of the program, from acquire_lock to the exit      *)
(***************************************************************************)

\* what the path of the lock file holds: nothing, the file of a process
\* that is gone, the file of another live run, the file of this run
DiskStates == {"none", "stale", "other", "own"}

\* how many times the program is started, one run after the other
MaxRuns == 2

\* what a step of the try block can come to besides its own results
Raises == {"Exception", "KeyboardInterrupt"}

\* release_lock that closes the handle and leaves the file where it is
release_lock_keeping_file(m) ==
    [m EXCEPT !.lock_file = IF @ = "open" THEN "closed" ELSE @,
              !.flocked = FALSE,
              !.released = @ + 1]

\* release_lock(lock_file, lock_path): the handle is unlocked (with fcntl)
\* and closed, the file at lock_path is removed when it exists; nothing is
\* raised
release_lock(m) ==
    [m EXCEPT !.lock_file = IF @ = "open" THEN "closed" ELSE @,
              !.flocked = FALSE,
              !.disk = IF m.lock_path /\ @ # "none" THEN "none" ELSE @,
              !.released = @ + 1]

\* sys.exit(code)
SysExit(m, code) == [m EXCEPT !.pc = "exited", !.exit_code = code]

\* an exception leaves the try block for its handler
Raise(m, exception) ==
    [m EXCEPT !.pc = IF exception = "KeyboardInterrupt" THEN "interrupted" ELSE "failed",
              !.raised_at = m.pc]

\* main() starts: lock_file = None, lock_path = None
Started(run, disk, has_fcntl) ==
    [pc |-> "acquire", run |-> run, has_fcntl |-> has_fcntl, disk |-> disk,
     lock_file |-> "None", lock_path |-> FALSE, flocked |-> FALSE, acquired |-> FALSE,
     released |-> 0, success |-> FALSE, raised_at |-> "none", exit_code |-> -1]

MainInit ==
    /\ \E disk \in {"none", "stale", "other"}, has_fcntl \in BOOLEAN :
          lock = Started(1, disk, has_fcntl)
    /\ calc = CalcIdle
    /\ trunc = TruncIdle
    /\ fmtr = FmtrIdle
    /\ pub = PubIdle

\* `lock_file, lock_path = acquire_lock()` and `if not lock_file:
\* sys.exit(2)`.  The file of a live run refuses the lock; otherwise the file
\* is created and held, or acquire_lock fails inside and gives (None, None);
\* an interrupt inside acquire_lock leaves main's two names at None, with
\* the file created or not
AcquireLock ==
    /\ lock.pc = "acquire"
    /\ \/ /\ lock.disk = "other"
          /\ lock' = SysExit(lock, 2)
       \/ /\ lock.disk # "other"
          /\ \/ lock' = [lock EXCEPT !.pc = "telegram", !.disk = "own", !.lock_file = "open",
                                     !.lock_path = TRUE, !.flocked = lock.has_fcntl,
                                     !.acquired = TRUE]
             \/ lock' = SysExit([lock EXCEPT !.disk = "none"], 2)
             \/ \E created \in BOOLEAN :
                   lock' = Raise([lock EXCEPT !.disk = IF created THEN "own" ELSE "none"],
                                 "KeyboardInterrupt")
    /\ UNCHANGED <<calc, trunc, fmtr, pub>>

\* the banner and `if not validate_telegram_credentials():` with its
\* release_lock and sys.exit(1)
ValidateTelegramCredentials ==
    /\ lock.pc = "telegram"
    /\ \/ lock' = [lock EXCEPT !.pc = "display"]
       \/ lock' = SysExit(release_lock(lock), 1)
       \/ \E exception \in Raises : lock' = Raise(lock, exception)
    /\ UNCHANGED <<calc, trunc, fmtr, pub>>

\* `if not validate_display_config():` with its release_lock and sys.exit(1)
ValidateDisplayConfig ==
    /\ lock.pc = "display"
    /\ \/ lock' = [lock EXCEPT !.pc = "images"]
       \/ lock' = SysExit(release_lock(lock), 1)
       \/ \E exception \in Raises : lock' = Raise(lock, exception)
    /\ UNCHANGED <<calc, trunc, fmtr, pub>>

\* `validate_image_availability(sample_size=3)`: its answer is not used
ValidateImageAvailability ==
    /\ lock.pc = "images"
    /\ \/ lock' = [lock EXCEPT !.pc = "parser"]
       \/ \E exception \in Raises : lock' = Raise(lock, exception)
    /\ UNCHANGED <<calc, trunc, fmtr, pub>>

\* `success = asyncio.run(main_parser())`
RunMainParser ==
    /\ lock.pc = "parser"
    /\ \/ \E success \in BOOLEAN : lock' = [lock EXCEPT !.pc = "release", !.success = success]
       \/ \E exception \in Raises : lock' = Raise(lock, exception)
    /\ UNCHANGED <<calc, trunc, fmtr, pub>>

\* `release_lock(lock_file, lock_path)` after the parser and the
\* sys.exit(0) or sys.exit(1) that follows.  An interrupt inside
\* release_lock is not caught there: it can come before the handle is
\* closed or between the close and the removal of the file
ReleaseAndExit ==
    /\ lock.pc = "release"
    /\ \/ lock' = SysExit(release_lock(lock), IF lock.success THEN 0 ELSE 1)
       \/ lock' = Raise(lock, "KeyboardInterrupt")
       \/ lock' = Raise([lock EXCEPT !.lock_file = "closed", !.flocked = FALSE,
                                      !.released = @ + 1],
                        "KeyboardInterrupt")
    /\ UNCHANGED <<calc, trunc, fmtr, pub>>

\* a handler that logs and exits without release_lock
ExceptKeyboardInterruptNoRelease ==
    /\ lock.pc = "interrupted"
    /\ lock' = SysExit(lock, 130)
    /\ UNCHANGED <<calc, trunc, fmtr, pub>>

\* `except KeyboardInterrupt:` release_lock and sys.exit(130)
ExceptKeyboardInterrupt ==
    /\ lock.pc = "interrupted"
    /\ lock' = SysExit(release_lock(lock), 130)
    /\ UNCHANGED <<calc, trunc, fmtr, pub>>

\* `except Exception as e:` release_lock and sys.exit(1)
ExceptException ==
    /\ lock.pc = "failed"
    /\ lock' = SysExit(release_lock(lock), 1)
    /\ UNCHANGED <<calc, trunc, fmtr, pub>>

\* `if __name__ == "__main__": main()`, once more after the process has
\* exited: the handle of the run is gone with the process, a file it left
\* is now the file of a process that is gone, and another run that held
\* the lock may have ended and removed its file
StartAgain ==
    /\ lock.pc = "exited"
    /\ lock.run < MaxRuns
    /\ \E disk \in {"none", "stale", "other"} :
          /\ lock.disk = "own" => disk = "stale"
          /\ lock.disk = "stale" => disk = "stale"
          /\ lock.disk = "none" => disk # "stale"
          /\ lock.disk = "other" => disk # "stale"
          /\ lock' = Started(lock.run + 1, disk, lock.has_fcntl)
    /\ UNCHANGED <<calc, trunc, fmtr, pub>>

MainNext ==
    \/ StartAgain
    \/ AcquireLock
    \/ ValidateTelegramCredentials
    \/ ValidateDisplayConfig
    \/ ValidateImageAvailability
    \/ RunMainParser
    \/ ReleaseAndExit
    \/ ExceptKeyboardInterrupt
    \/ ExceptException

SpecMain == MainInit /\ [][MainNext]_vars

\* C28: every run of main that acquired the lock has called release_lock
\* by the time the process exits, whatever the exit path (validation
\* failure of the credentials or of the configuration, parser success,
\* parser failure, KeyboardInterrupt, unexpected exception), and the lock
\* file is gone at the exit.
C28_LockReleasedAtExit ==
    (lock.pc = "exited" /\ lock.acquired) =>
        /\ lock.released >= 1
        /\ lock.lock_file = "closed"
        /\ ~lock.flocked
        /\ lock.disk = "none"

\* the run was interrupted while the parser worked and left through the
\* KeyboardInterrupt handler
C28_Witness ==
    /\ lock.pc = "exited"
    /\ lock.acquired
    /\ lock.raised_at = "parser"
    /\ lock.exit_code = 130
    /\ lock.released = 1

=============================================================================
